---- MODULE Spec2Model ----
(***************************************************************************)
(* A model of the gent HTTP client: the request execution pipeline        *)
(* (Client.Do, Request.Next, prepare, execute, executeWithRetrier), the   *)
(* retrier's predicate and loop, and the endpoint formatter with its      *)
(* pooled writer.                                                          *)
(***************************************************************************)
EXTENDS Integers, Sequences, FiniteSets, TLC

(***************************************************************************)
(* Bounds of the model.                                                    *)
(***************************************************************************)
\* most middlewares registered on one client (high-level plus low-level)
MaxMw == 2
\* largest finite retry maximum a retrier is constructed with
MaxRetries == 1
\* most transport invocations of one call (caps the unlimited retrier)
MaxCalls == 3
\* page size and pool size of the memory pool the pipeline's client uses
PipePageSize == 2
PipePoolSize == 2
\* longest endpoint template, most path parameters and largest page size of
\* the calls of fmtEndpoint
MaxFmtLen == 3
MaxPathPrm == 2
MaxFmtPage == 3
\* longest string given to writeEscaped
MaxStrLen == 3
\* the memory pool used by concurrent requests: the requests, the pages one
\* request holds at a time, the byte arrays allocated, the largest page size
\* and the largest pool size
NumProcs == 2
MaxHeld == 2
MaxPages == 3
MaxPoolPage == 2
MaxPoolSize == 2
\* the calls of Client.Use made on one client and the middlewares one call
\* registers
MaxUse == 2
MaxBatch == 2
\* a writer used directly: the largest page size of its pool, the longest
\* string written, the calls made on it and the pages its buffer retires
MaxWrPage == 2
MaxWrStr == 2
MaxWrOps == 2
MaxWrStore == 4

(***************************************************************************)
(* Bytes.  A string is a sequence of byte values ("a" is 97, "b" 98, " "  *)
(* 32, "%" 37).                                                            *)
(***************************************************************************)
LBrace == 123
RBrace == 125
Question == 63
Ampersand == 38
Equals == 61

\* the upper-case hexadecimal digit of a value 0..15, as a byte
HexDigit(n) == IF n < 10 THEN 48 + n ELSE 55 + n

\* unreserved bytes are letters, digits and - _ . ~ ; every other byte is escaped
shouldEscape(b) ==
    ~ \/ (b >= 97 /\ b <= 122)
      \/ (b >= 65 /\ b <= 90)
      \/ (b >= 48 /\ b <= 57)
      \/ b \in {45, 95, 46, 126}

\* the three characters %XX of a byte
escape(b) == << 37, HexDigit(b \div 16), HexDigit(b % 16) >>

\* a slice expression that starts one byte late
SubStrDropsFirst(s, beg, end) == SubSeq(s, beg + 2, end)

SubStr(s, beg, end) == SubSeq(s, beg + 1, end)

(***************************************************************************)
(* Memory pool (MemPool), buffer and writer.  A page is a byte slice:     *)
(* its bytes and its capacity.  A writer value w carries the buffer       *)
(* (page, store, bytes) and the pool it borrows (pool, pageSize,          *)
(* poolSize).                                                              *)
(***************************************************************************)
NewPage(size) == [dat |-> << >>, cap |-> size]

\* append(page, bytes...): the slice grows when its capacity is exceeded
appendBytes(page, s) ==
    [dat |-> page.dat \o s,
     cap |-> IF Len(page.dat) + Len(s) > page.cap
             THEN Len(page.dat) + Len(s) ELSE page.cap]

\* an Acquire that reads the first pooled page and leaves it in the pool
AcquireKeepsPage(w) ==
    IF Len(w.pool) > 0
    THEN [page |-> Head(w.pool), w |-> w]
    ELSE [page |-> NewPage(w.pageSize), w |-> w]

\* MemPool.Acquire: a pooled page when there is one, a new page otherwise
Acquire(w) ==
    IF Len(w.pool) > 0
    THEN [page |-> Head(w.pool), w |-> [w EXCEPT !.pool = Tail(@)]]
    ELSE [page |-> NewPage(w.pageSize), w |-> w]

RECURSIVE ReleasePagesNoReset(_, _, _)
\* a Release that offers the pages without resetting their length
ReleasePagesNoReset(pool, poolSize, pages) ==
    IF pages = << >> THEN pool
    ELSE ReleasePagesNoReset(
            IF Len(pool) < poolSize THEN Append(pool, Head(pages)) ELSE pool,
            poolSize, Tail(pages))

RECURSIVE ReleasePagesUnbounded(_, _, _)
\* a Release that keeps every page offered, whatever the pool holds
ReleasePagesUnbounded(pool, poolSize, pages) ==
    IF pages = << >> THEN pool
    ELSE ReleasePagesUnbounded(
            Append(pool, [Head(pages) EXCEPT !.dat = << >>]),
            poolSize, Tail(pages))

RECURSIVE ReleasePages(_, _, _)
\* MemPool.Release: each page is reset to length 0 (mem[i][:0], the same
\* array) and offered to the pool; a page offered to a full pool is discarded
ReleasePages(pool, poolSize, pages) ==
    IF pages = << >> THEN pool
    ELSE ReleasePages(
            IF Len(pool) < poolSize
            THEN Append(pool, [Head(pages) EXCEPT !.dat = << >>])
            ELSE pool,
            poolSize, Tail(pages))

\* newBuffer over a page acquired from the pool
newWrirter(pool, pageSize, poolSize) ==
    LET w0 == [page |-> NewPage(0), store |-> << >>, bytes |-> 0,
               pool |-> pool, pageSize |-> pageSize, poolSize |-> poolSize]
        a  == Acquire(w0)
    IN  [a.w EXCEPT !.page = a.page]

\* an add that retires the page without counting its bytes
bufAddForgetsBytes(w, page) ==
    [w EXCEPT !.store = Append(@, w.page), !.page = page]

\* buffer.add: the current page is retired to the store
bufAdd(w, page) ==
    [w EXCEPT !.store = Append(@, w.page),
              !.bytes = @ + Len(w.page.dat),
              !.page  = page]

bufLen(w) == w.bytes + Len(w.page.dat)

RECURSIVE Concat(_)
Concat(pages) ==
    IF pages = << >> THEN << >> ELSE Head(pages).dat \o Concat(Tail(pages))

\* a build that copies the current page ahead of the retired pages
bufBuildCurrentFirst(w) == w.page.dat \o Concat(w.store)

\* buffer.build(nil): the retired pages in order, then the current page
bufBuild(w) == Concat(w.store) \o w.page.dat

\* buffer.build(buf): the pages are appended to buf when its spare capacity
\* holds them, and to a new slice otherwise
bufBuildInto(w, buf) ==
    (IF buf.cap - Len(buf.dat) >= w.bytes + Len(w.page.dat)
     THEN buf.dat ELSE << >>)
    \o Concat(w.store) \o w.page.dat

writeByte(w, byt) ==
    IF Len(w.page.dat) < w.page.cap
    THEN [w EXCEPT !.page = appendBytes(@, << byt >>)]
    ELSE LET a == Acquire(w)
         IN  bufAdd(a.w, appendBytes(a.page, << byt >>))

RECURSIVE writeStringLoop(_, _, _, _)
writeStringLoop(w, str, beg, end) ==
    IF beg < Len(str)
    THEN LET a    == Acquire(w)
             end1 == end + a.page.cap
             end2 == IF end1 > Len(str) THEN Len(str) ELSE end1
         IN  writeStringLoop(
                 bufAdd(a.w, appendBytes(a.page, SubStr(str, beg, end2))),
                 str, end2, end2)
    ELSE w

writeString(w, str) ==
    LET space == w.page.cap - Len(w.page.dat)
    IN  IF space >= Len(str)
        THEN [w EXCEPT !.page = appendBytes(@, str)]
        ELSE writeStringLoop(
                 [w EXCEPT !.page = appendBytes(@, SubStr(str, 0, space))],
                 str, space, space)

RECURSIVE writeEscapedLoopKeepsByte(_, _, _, _)
\* a loop that leaves beg on the escaped byte (beg = end for beg = end + 1)
writeEscapedLoopKeepsByte(w, str, beg, end) ==
    IF end < Len(str)
    THEN IF shouldEscape(str[end + 1])
         THEN writeEscapedLoopKeepsByte(
                  writeString(writeString(w, SubStr(str, beg, end)),
                              escape(str[end + 1])),
                  str, end, end + 1)
         ELSE writeEscapedLoopKeepsByte(w, str, beg, end + 1)
    ELSE writeString(w, SubStr(str, beg, end))

RECURSIVE writeEscapedLoop(_, _, _, _)
writeEscapedLoop(w, str, beg, end) ==
    IF end < Len(str)
    THEN IF shouldEscape(str[end + 1])
         THEN writeEscapedLoop(
                  writeString(writeString(w, SubStr(str, beg, end)),
                              escape(str[end + 1])),
                  str, end + 1, end + 1)
         ELSE writeEscapedLoop(w, str, beg, end + 1)
    ELSE writeString(w, SubStr(str, beg, end))

writeEscaped(w, str) == writeEscapedLoop(w, str, 0, 0)

\* a release that returns the current page and keeps the retired pages
releaseCurrentOnly(w) == ReleasePages(w.pool, w.poolSize, << w.page >>)

\* writer.release: the current page, then the retired pages
release(w) ==
    ReleasePages(ReleasePages(w.pool, w.poolSize, << w.page >>),
                 w.poolSize, w.store)

(***************************************************************************)
(* Request.fmtEndpoint.  queryPrm is the query map in the order in which  *)
(* the map is iterated: a sequence of [k, vs].  The result carries the    *)
(* bytes built (nil on error), the error, the pool after the deferred     *)
(* release and the number of bytes the writer held when it was released.  *)
(***************************************************************************)
NoErr == [kind |-> "nil", code |-> 0, wrapped |-> FALSE]
Err(kind) == [kind |-> kind, code |-> 0, wrapped |-> FALSE]
ErrIllegal == Err("illegal character/Invalid format in url")
ErrNotEnough == Err("not enough parameters provided")
ErrTooMany == Err("too many parameters provided")

\* a check after the scan that never finds parameters left over
noParamsLeft(pathIdx, pathPrm) == pathIdx > Len(pathPrm)

\* pathIdx != len(pathPrm) after the scan: parameters are left over
paramsLeft(pathIdx, pathPrm) == pathIdx # Len(pathPrm)

RECURSIVE fmtScanCountFirst(_, _, _, _, _, _)
\* a scan that counts the parameters before it looks at the byte after {
fmtScanCountFirst(w, format, pathPrm, lst, cur, pathIdx) ==
    IF cur < Len(format)
    THEN IF format[cur + 1] = LBrace
         THEN IF pathIdx >= Len(pathPrm)
              THEN [w |-> w, lst |-> lst, cur |-> cur, pathIdx |-> pathIdx,
                    err |-> ErrNotEnough]
              ELSE IF cur + 1 = Len(format) \/ format[cur + 2] # RBrace
              THEN [w |-> w, lst |-> lst, cur |-> cur, pathIdx |-> pathIdx,
                    err |-> ErrIllegal]
              ELSE fmtScanCountFirst(
                      writeEscaped(writeString(w, SubStr(format, lst, cur)),
                                   pathPrm[pathIdx + 1]),
                      format, pathPrm, cur + 2, cur + 2, pathIdx + 1)
         ELSE fmtScanCountFirst(w, format, pathPrm, lst, cur + 1, pathIdx)
    ELSE [w |-> w, lst |-> lst, cur |-> cur, pathIdx |-> pathIdx,
          err |-> NoErr]

RECURSIVE fmtScan(_, _, _, _, _, _)
\* the scan of the template: the writer, lst, cur, pathIdx and the error met
fmtScan(w, format, pathPrm, lst, cur, pathIdx) ==
    IF cur < Len(format)
    THEN IF format[cur + 1] = LBrace
         THEN IF cur + 1 = Len(format) \/ format[cur + 2] # RBrace
              THEN [w |-> w, lst |-> lst, cur |-> cur, pathIdx |-> pathIdx,
                    err |-> ErrIllegal]
              ELSE IF pathIdx >= Len(pathPrm)
              THEN [w |-> w, lst |-> lst, cur |-> cur, pathIdx |-> pathIdx,
                    err |-> ErrNotEnough]
              ELSE fmtScan(
                      writeEscaped(writeString(w, SubStr(format, lst, cur)),
                                   pathPrm[pathIdx + 1]),
                      format, pathPrm, cur + 2, cur + 2, pathIdx + 1)
         ELSE fmtScan(w, format, pathPrm, lst, cur + 1, pathIdx)
    ELSE [w |-> w, lst |-> lst, cur |-> cur, pathIdx |-> pathIdx,
          err |-> NoErr]

RECURSIVE fmtValues(_, _, _, _)
\* the inner loop over the values of one key
fmtValues(w, begIdx, k, vs) ==
    IF vs = << >> THEN w
    ELSE LET w1 == IF Len(w.page.dat) > begIdx
                   THEN writeByte(w, Ampersand) ELSE w
             w2 == writeEscaped(w1, k)
             w3 == writeByte(w2, Equals)
             w4 == writeEscaped(w3, Head(vs))
         IN  fmtValues(w4, begIdx, k, Tail(vs))

RECURSIVE fmtQuery(_, _, _)
\* the outer loop over the keys of the query map
fmtQuery(w, begIdx, queryPrm) ==
    IF queryPrm = << >> THEN w
    ELSE fmtQuery(fmtValues(w, begIdx, Head(queryPrm).k, Head(queryPrm).vs),
                  begIdx, Tail(queryPrm))

\* fmtEndpoint up to the evaluation of what it returns, before the deferred
\* release: the bytes, the error and the writer
fmtWrite(pool, pageSize, poolSize, format, queryPrm, pathPrm) ==
    LET wrt == newWrirter(pool, pageSize, poolSize)
        sc  == fmtScan(wrt, format, pathPrm, 0, 0, 0)
    IN  IF sc.err # NoErr
        THEN [out |-> << >>, err |-> sc.err, w |-> sc.w]
        ELSE IF paramsLeft(sc.pathIdx, pathPrm)
        THEN [out |-> << >>, err |-> ErrTooMany, w |-> sc.w]
        ELSE LET w1 == IF sc.lst < sc.cur
                       THEN writeString(sc.w, SubStr(format, sc.lst, sc.cur))
                       ELSE sc.w
                 w2 == IF Len(queryPrm) > 0
                       THEN LET wq == writeByte(w1, Question)
                            IN  fmtQuery(wq, bufLen(wq), queryPrm)
                       ELSE w1
             IN  [out |-> bufBuild(w2), err |-> NoErr, w |-> w2]

\* defer wrt.release(): what fmtEndpoint returns once the writer of the
\* result r is released, with the number of bytes that writer held
fmtDeferred(r) ==
    [out |-> r.out, err |-> r.err, pool |-> release(r.w),
     written |-> bufLen(r.w)]

\* fmtEndpoint: the deferred wrt.release() runs on every return
fmtEndpoint(pool, pageSize, poolSize, format, queryPrm, pathPrm) ==
    fmtDeferred(fmtWrite(pool, pageSize, poolSize, format, queryPrm, pathPrm))

(***************************************************************************)
(* Errors, responses, retrier and client configuration.                    *)
(***************************************************************************)
ErrMarshal == Err("marshal error")
ErrMarshalerNil == Err("marshaller is nil")
ErrNewRequest == Err("net/http: invalid method")
ErrTransport == Err("transport error")
ErrCtx == Err("context canceled")
ErrStatus(n) ==
    [kind |-> "request failed with status code", code |-> n, wrapped |-> FALSE]
ErrMw(pos) == [kind |-> "middleware error", code |-> pos, wrapped |-> FALSE]
\* fmt.Errorf("failed after max retries: %w", err)
ErrMaxRetries(e) == [e EXCEPT !.wrapped = TRUE]

NilResp == [status |-> 0, call |-> 0]
\* the response the transport produces in its n-th invocation
Resp(status, n) == [status |-> status, call |-> n]

\* the statuses the transport of the pipeline answers with, and an allowlist
Statuses == {200, 404, 500}
RetryCodes == {500}

NoRetrier == [present |-> FALSE, max |-> 0, retryCodes |-> {}]
\* NewBasicRetrier(max, delayf): no status-code allowlist
NewBasicRetrier(max) == [present |-> TRUE, max |-> max, retryCodes |-> {}]
\* NewStatusCodeRetrier(max, delayf, retryCodes)
NewStatusCodeRetrier(max, codes) ==
    [present |-> TRUE, max |-> max, retryCodes |-> codes]

\* variants of ShouldRetry: one that drops the transport error, one that never
\* retries on a status, one with the threshold off by one, and one that retries
\* every status above 299
ShouldRetryDropsError(retryCodes, res, err) ==
    IF err # NoErr
    THEN [err |-> NoErr, retry |-> FALSE]
    ELSE IF res.status > 299
    THEN [err |-> ErrStatus(res.status), retry |-> res.status \in retryCodes]
    ELSE [err |-> NoErr, retry |-> FALSE]

ShouldRetryOffByOne(retryCodes, res, err) ==
    IF err # NoErr
    THEN [err |-> err, retry |-> TRUE]
    ELSE IF res.status >= 299
    THEN [err |-> ErrStatus(res.status), retry |-> res.status \in retryCodes]
    ELSE [err |-> NoErr, retry |-> FALSE]

ShouldRetryAnyStatus(retryCodes, res, err) ==
    IF err # NoErr
    THEN [err |-> err, retry |-> TRUE]
    ELSE IF res.status > 299
    THEN [err |-> ErrStatus(res.status), retry |-> TRUE]
    ELSE [err |-> NoErr, retry |-> FALSE]

\* a ShouldRetry that takes every response that came without an error for a
\* success
ShouldRetryIgnoresStatus(retryCodes, res, err) ==
    IF err # NoErr
    THEN [err |-> err, retry |-> TRUE]
    ELSE [err |-> NoErr, retry |-> FALSE]

\* retrier.ShouldRetry(res, err): the error and the retry flag
ShouldRetry(retryCodes, res, err) ==
    IF err # NoErr
    THEN [err |-> err, retry |-> TRUE]
    ELSE IF res.status > 299
    THEN [err |-> ErrStatus(res.status), retry |-> res.status \in retryCodes]
    ELSE [err |-> NoErr, retry |-> FALSE]

Stage(fn, idx) == [fn |-> fn, idx |-> idx]

\* variants of NewClient: prepare ahead of the high-level middlewares, and
\* executeWithRetrier whatever the configuration
NewClientPrepareFirst(hl, ll, retrier) ==
    << Stage("prepare", 0) >>
    \o [i \in 1..hl |-> Stage("hl", i)]
    \o [i \in 1..ll |-> Stage("ll", i)]
    \o << IF retrier.present
          THEN Stage("executeWithRetrier", 0) ELSE Stage("execute", 0) >>

NewClientAlwaysRetrier(hl, ll, retrier) ==
    [i \in 1..hl |-> Stage("hl", i)]
    \o << Stage("prepare", 0) >>
    \o [i \in 1..ll |-> Stage("ll", i)]
    \o << Stage("executeWithRetrier", 0) >>

\* NewClient: the chain of a configuration with hl high-level and ll low-level
\* middlewares and the given retrier
NewClient(hl, ll, retrier) ==
    [i \in 1..hl |-> Stage("hl", i)]
    \o << Stage("prepare", 0) >>
    \o [i \in 1..ll |-> Stage("ll", i)]
    \o << IF retrier.present
          THEN Stage("executeWithRetrier", 0) ELSE Stage("execute", 0) >>

\* a Next that increments the cursor without testing it
NextFniUnguarded(i, n) == i + 1

\* Request.Next: the cursor after the guard and the increment
NextFni(i, n) == IF i < n THEN i + 1 ELSE i

\* a Next that loops over the remaining stages ("for" in place of "if")
NextLoops(i, n) == i < n

\* Request.Next tests the cursor once ("if", not "for"): when the stage it ran
\* returns, it runs no further stage
NextContinues(i, n) == FALSE

\* a Next that leaves the cursor where the stage left it, in every variant
ReturnFniKeeps(decr, i) == i

\* the variants of Next that decrement the cursor after the stage returns
ReturnFni(decr, i) == IF decr THEN i - 1 ELSE i

\* a Do that returns the last error of the list
DoResultLastError(res, errs) ==
    [res |-> res, err |-> IF Len(errs) > 0 THEN errs[Len(errs)] ELSE NoErr]

\* Client.Do: the pair returned from the response slot and the error list
DoResult(res, errs) ==
    [res |-> res, err |-> IF Len(errs) > 0 THEN errs[1] ELSE NoErr]

\* Marshaler.Marshal: the data, the content type and the error
Marshal(body) ==
    IF body = "bad"
    THEN [data |-> << >>, ctype |-> "application/json", err |-> ErrMarshal]
    ELSE [data |-> << 97 >>, ctype |-> "application/json", err |-> NoErr]

\* r.response, err = r.client.Do(req): the response slot after an attempt
\* that found prev in it and whose transport outcome is o; the variant keeps
\* the response of the first attempt
keepFirstResponse(prev, o) == IF prev = NilResp THEN o.res ELSE prev

storeResponse(prev, o) == o.res

\* retrier.Run hands the call's context to the loop (RunCtx, not Run); the
\* variant runs the loop without it
RunIgnoresCtx == FALSE

RunWithCtx == TRUE

\* a count of the run (transport invocations, retries) after one more; the
\* count stays at MaxCalls once it has reached it, which only the unlimited
\* retrier does
CountCall(n) == IF n < MaxCalls THEN n + 1 ELSE n

\* RunCtx returns the error of the work function at once when its flag says
\* not to retry
runStops(retry) == ~retry

\* the loop condition of RunCtx: attempts <= max, or max is unlimited (-1)
RunCtxContinue(retries, max) == max = -1 \/ retries <= max

(***************************************************************************)
(* The inputs of a call.                                                   *)
(***************************************************************************)
Absent == "<absent>"
HeaderNames == {"Content-Type", "content-type", "Authorization"}
\* a headers map: nil, or the value of every key (Absent when not present)
NilHeaders == [isNil |-> TRUE, m |-> [k \in HeaderNames |-> Absent]]
MakeHeaders(ctype, auth) ==
    [isNil |-> FALSE,
     m |-> [k \in HeaderNames |->
              IF k = "Content-Type" THEN ctype
              ELSE IF k = "Authorization" THEN auth ELSE Absent]]
\* the map h with the entry k: v
WithHeader(h, k, v) == [h EXCEPT !.m[k] = v]

\* req.Header.Add(k, v) files the value under the canonical form of the key
CanonicalKey(k) == IF k = "content-type" THEN "Content-Type" ELSE k
CanonNames == { CanonicalKey(k) : k \in HeaderNames }
PresentKeys(h) == { k \in HeaderNames : h.m[k] # Absent }
\* the orders in which "for k, v := range r.headers" can visit the keys
Orders(S) ==
    { sq \in [1..Cardinality(S) -> S] :
        \A i, j \in 1..Cardinality(S) : i # j => sq[i] # sq[j] }

RECURSIVE ValuesOf(_, _, _)
\* the values added under the canonical name c when the keys are visited in
\* the given order
ValuesOf(h, order, c) ==
    IF order = << >> THEN << >>
    ELSE (IF CanonicalKey(Head(order)) = c
          THEN << h.m[Head(order)] >> ELSE << >>)
         \o ValuesOf(h, Tail(order), c)

\* a body reader made once and read to its end by the first attempt
sharedBody(n, d) == IF n = 0 THEN d ELSE << >>

\* bytes.NewReader(r.data), made for the attempt after n invocations: the
\* bytes the transport reads from it
freshBody(n, d) == d

\* the http.Request built by an attempt: NewRequestWithContext, then every
\* entry of the headers map added
NewRequest(method, url, body, h, order) ==
    [method |-> method, url |-> url, body |-> body,
     header |-> [c \in CanonNames |-> ValuesOf(h, order, c)]]
NoRequest ==
    [method |-> "", url |-> << >>, body |-> << >>,
     header |-> [c \in CanonNames |-> << >>]]

QueryOne == << [k |-> << 97 >>, vs |-> << << 98 >> >>] >>
FormatOk == << 97, LBrace, RBrace >>
PathOk == << << 98, 32 >> >>

Input(format, pathPrm, queryPrm, body, marshaler, hdrs, method) ==
    [format |-> format, pathPrm |-> pathPrm, queryPrm |-> queryPrm,
     body |-> body, marshaler |-> marshaler, headers |-> hdrs,
     method |-> method]

\* the calls made: one that prepares with a body, one without a body, and one
\* for each way prepare or the construction of the request can fail
Inputs ==
    { Input(FormatOk, PathOk, QueryOne, "ok", "json",
            MakeHeaders(Absent, "x.y.z"), "GET"),
      Input(FormatOk, PathOk, << >>, "nil", "nil",
            MakeHeaders("text/plain", Absent), "GET"),
      Input(<< 97 >>, << >>, << >>, "nil", "nil", NilHeaders, "GET"),
      Input(<< LBrace, 97 >>, << >>, << >>, "ok", "json",
            MakeHeaders(Absent, Absent), "GET"),
      Input(<< LBrace, RBrace >>, << >>, << >>, "nil", "nil", NilHeaders, "GET"),
      Input(<< 97 >>, PathOk, << >>, "nil", "nil", NilHeaders, "GET"),
      Input(FormatOk, PathOk, QueryOne, "bad", "json",
            MakeHeaders(Absent, Absent), "GET"),
      Input(FormatOk, PathOk, QueryOne, "ok", "nil",
            MakeHeaders(Absent, Absent), "GET"),
      Input(FormatOk, PathOk, QueryOne, "ok", "json", NilHeaders, "GET"),
      Input(FormatOk, PathOk, QueryOne, "ok", "json",
            MakeHeaders("text/plain", Absent), "GET"),
      Input(FormatOk, PathOk, QueryOne, "ok", "json",
            WithHeader(MakeHeaders(Absent, Absent), "content-type",
                       "text/plain"), "GET"),
      Input(<< LBrace, 97 >>, << >>, << >>, "ok", "nil", NilHeaders, "GET"),
      Input(<< 97 >>, << >>, << >>, "nil", "nil", NilHeaders, "\n") }

NoInput == Input(<< >>, << >>, << >>, "nil", "nil", NilHeaders, "GET")

\* what the transport can return in its n-th invocation: a response, an error,
\* or (after a failed redirect check) both
TransportOutcomes(n) ==
    { [res |-> Resp(st, n), err |-> NoErr] : st \in Statuses }
    \cup { [res |-> NilResp, err |-> ErrTransport],
           [res |-> Resp(404, n), err |-> ErrTransport] }

\* what one run of a middleware does before it returns: the calls of r.Error
\* ("E") and of r.Next ("N") it makes, in order
MwScripts ==
    { << >>, << "E" >>, << "N" >>, << "E", "E" >>, << "E", "N" >>,
      << "N", "E" >>, << "N", "N" >> }

(***************************************************************************)
(* State.                                                                  *)
(***************************************************************************)
VARIABLES
    decNext,     \* TRUE for the Next that decrements the cursor after the stage
    hlmiddlewares, llmiddlewares,  \* Configuration: the numbers registered
    retr,        \* Client.retr
    functions,   \* Client.functions
    srCall,      \* the last direct call of ShouldRetry: its inputs and result
    fmtCall,     \* a direct call of fmtEndpoint: its inputs and result
    mem,         \* a MemPool used directly by concurrent requests
    escCall,     \* a direct call of writeEscaped: its inputs and result
    use,         \* a client with Use: its lists, a Use and a Do in progress
    conc,        \* concurrent calls of Do on one client
    wcall,       \* a writer used directly: the buffer, the calls made on it
    pool,        \* Client.mem: the pages in the pool
    pc,          \* "idle", "running", "done" or "panic"
    in,          \* the inputs of the call
    fni,         \* Request.fni
    errors,      \* Request.errors
    response,    \* Request.response
    endpoint,    \* Request.endpoint
    data,        \* Request.data
    headers,     \* Request.headers (the caller's map)
    stack,       \* the stages that are running, the innermost last
    run,         \* the retrier's loop: pc, retries, err
    cancelled,   \* the call's context is done
    result,      \* what Do returned
    sent,        \* history: the request the transport was given last
    ran,         \* history: the chain positions run, in order
    called,      \* history: the number of transport invocations
    lastOut,     \* history: what the transport returned last
    errHist,     \* history: for each recorded error, the error, the recording
                 \* stage's position and the number of stages run by then
    noNext,      \* history: positions of stages that returned without Next
    twiceNext,   \* history: positions of stages that called Next again
    allRetry,    \* history: every attempt so far was retry-eligible
    allStatus    \* history: every attempt so far returned a nil error and a
                 \* status of the allowlist

vars == << decNext, hlmiddlewares, llmiddlewares, retr, functions, srCall,
           fmtCall, mem, escCall, use, conc, wcall, pool,
           pc, in, fni, errors, response, endpoint, data, headers, stack, run,
           cancelled, result, sent, ran, called, lastOut, errHist, noNext,
           twiceNext, allRetry, allStatus >>

\* the client's configuration, which no stage of a call writes
cfgVars == << decNext, hlmiddlewares, llmiddlewares, retr, functions, srCall,
             fmtCall, mem, escCall, use, conc, wcall >>
histVars == << ran, called, lastOut, errHist, noNext, twiceNext, allRetry,
              allStatus >>
attVars == << allRetry, allStatus >>

Frame(pos) == [pos |-> pos, pc |-> "start", done |-> << >>]
Top == stack[Len(stack)]
TopFn == functions[Top.pos].fn
Pop(stk) == SubSeq(stk, 1, Len(stk) - 1)
SetTop(stk, f) == [stk EXCEPT ![Len(stk)] = f]
CalledNext(f) == \E k \in 1..Len(f.done) : f.done[k] = "N"
IdleRun == [pc |-> "idle", retries |-> 0, err |-> NoErr]
NoOut == [res |-> NilResp, err |-> NoErr]
NoSrCall == [res |-> NilResp, err |-> NoErr, out |-> [err |-> NoErr, retry |-> FALSE]]

\* the retriers a client is configured with; max -1 is the unlimited setting
Retriers ==
    { NoRetrier }
    \cup { NewBasicRetrier(m) : m \in -1..MaxRetries }
    \cup { NewStatusCodeRetrier(m, RetryCodes) : m \in -1..MaxRetries }

\* no call of fmtEndpoint
NoFmtCall ==
    [called |-> FALSE, pageSize |-> PipePageSize, pool |-> << >>,
     format |-> << >>, queryPrm |-> << >>, pathPrm |-> << >>,
     out |-> << >>, err |-> NoErr, poolAfter |-> << >>, written |-> 0]

Procs == 1..NumProcs
\* NewMemPool(pageSize, poolSize) and the requests that use it: the pages each
\* holds and the pages each is releasing; the arrays the pool allocated (made),
\* the arrays handed out again after a release (reused) and the arrays passed
\* twice to one Release (twice)
NewMemPool(pageSize, poolSize) ==
    [pageSize |-> pageSize, poolSize |-> poolSize, pool |-> << >>,
     held |-> [p \in Procs |-> {}], relq |-> [p \in Procs |-> << >>],
     nextId |-> 1, made |-> {}, reused |-> {}, twice |-> {}]

\* no call in progress: the request's fields and the history are empty
InitRequest ==
    /\ pool = << >>
    /\ pc = "idle"
    /\ in = NoInput
    /\ fni = 0
    /\ errors = << >>
    /\ response = NilResp
    /\ endpoint = << >>
    /\ data = << >>
    /\ headers = NilHeaders
    /\ stack = << >>
    /\ run = IdleRun
    /\ cancelled = FALSE
    /\ result = DoResult(NilResp, << >>)
    /\ sent = NoRequest
    /\ ran = << >>
    /\ called = 0
    /\ lastOut = NoOut
    /\ errHist = << >>
    /\ noNext = {}
    /\ twiceNext = {}
    /\ allRetry = TRUE
    /\ allStatus = TRUE

\* no call of writeEscaped
NoEscCall ==
    [called |-> FALSE, pageSize |-> PipePageSize, str |-> << >>, out |-> << >>]

\* a middleware registered by the idx-th argument of the batch-th call of Use
Mw(batch, idx) == [batch |-> batch, idx |-> idx]
\* a nil function read from memory that Use has not yet written
NilMw == Mw(0, 0)
PrepareMw == Mw(-1, 0)
ExecuteMw == Mw(-2, 0)

\* the client of the version that has Use, as NewClient leaves it: two empty
\* lists; no Use and no Do in progress
UseClient ==
    [l2mdw |-> << >>, l1mdw |-> << >>,
     wr |-> [stage |-> "none", new |-> << >>],
     uses |-> 0, sizes |-> [b \in 1..MaxUse |-> 0],
     dpc |-> "idle", fns |-> << >>, racy |-> FALSE]

\* the Request of a call that has not been made; its writer holds no page
IdleReq ==
    [pc |-> "idle", in |-> NoInput, fni |-> 0, errors |-> << >>,
     endpoint |-> << >>, ferr |-> NoErr, data |-> << >>,
     headers |-> NilHeaders, response |-> NilResp,
     w |-> [page |-> NewPage(0), store |-> << >>, bytes |-> 0,
            pool |-> << >>, pageSize |-> PipePageSize,
            poolSize |-> PipePoolSize],
     ran |-> << >>, reused |-> FALSE, result |-> DoResult(NilResp, << >>)]

\* no concurrent calls: the client's pool, the Request of each call as it
\* runs among the others (real), and the Request and the pool of the same
\* call run with the same inputs on a client that serves no other call (alone)
NoConc ==
    [pool |-> << >>,
     real |-> [p \in Procs |-> IdleReq],
     alone |-> [p \in Procs |-> IdleReq],
     apool |-> [p \in Procs |-> << >>]]

InitCall ==
    /\ srCall = NoSrCall
    /\ fmtCall = NoFmtCall
    /\ mem = NewMemPool(PipePageSize, PipePoolSize)
    /\ escCall = NoEscCall
    /\ use = UseClient
    /\ conc = NoConc
    /\ wcall = << >>
    /\ InitRequest

\* a client constructed by NewClient from any configuration
Init ==
    /\ decNext = FALSE
    /\ hlmiddlewares \in 0..MaxMw
    /\ llmiddlewares \in 0..(MaxMw - hlmiddlewares)
    /\ retr \in Retriers
    /\ functions = NewClient(hlmiddlewares, llmiddlewares, retr)
    /\ InitCall

\* r.Error(err) by the stage at the top of the stack
Record(e) ==
    /\ errors' = Append(errors, e)
    /\ errHist' = Append(errHist,
                         [err |-> e, pos |-> Top.pos, nran |-> Len(ran)])

\* r.Next() by the stage whose frame (already updated) is f
CallNext(f) ==
    /\ fni' = NextFni(fni, Len(functions))
    /\ IF fni < Len(functions)
       THEN /\ stack' = Append(SetTop(stack, f), Frame(fni'))
            /\ ran' = Append(ran, fni')
       ELSE /\ stack' = SetTop(stack, f)
            /\ ran' = ran

\* Client.Do up to the call of req.Next(): newRequest and the first stage
Do ==
    /\ pc = "idle"
    /\ in' \in Inputs
    /\ headers' = in'.headers
    /\ pc' = "running"
    /\ fni' = NextFni(fni, Len(functions))
    /\ stack' = << Frame(fni') >>
    /\ ran' = << fni' >>
    /\ UNCHANGED << cfgVars, sent, pool, errors, response, endpoint, data, run,
                    cancelled, result, called, lastOut, errHist, noNext,
                    twiceNext, attVars >>

IsMw(fn) == fn \in {"hl", "ll"}
MayDo(f, op) == \E sc \in MwScripts :
    /\ Len(sc) > Len(f.done)
    /\ SubSeq(sc, 1, Len(f.done) + 1) = Append(f.done, op)

\* a middleware records an error
MwError ==
    /\ pc = "running" /\ stack # << >>
    /\ IsMw(TopFn) /\ MayDo(Top, "E")
    /\ Record(ErrMw(Top.pos))
    /\ stack' = SetTop(stack, [Top EXCEPT !.done = Append(@, "E")])
    /\ UNCHANGED << cfgVars, sent, pool, pc, in, fni, response, endpoint, data,
                    headers, run, cancelled, result, ran, called, lastOut,
                    noNext, twiceNext, attVars >>

\* a middleware calls r.Next()
MwNext ==
    /\ pc = "running" /\ stack # << >>
    /\ IsMw(TopFn) /\ MayDo(Top, "N")
    /\ CallNext([Top EXCEPT !.done = Append(@, "N")])
    /\ twiceNext' = IF CalledNext(Top) THEN twiceNext \cup {Top.pos}
                    ELSE twiceNext
    /\ UNCHANGED << cfgVars, sent, pool, pc, in, errors, response, endpoint, data,
                    headers, run, cancelled, result, called, lastOut, errHist,
                    noNext, attVars >>

\* the stage at the top of the stack returns to the Next that called it
Return ==
    /\ pc = "running" /\ stack # << >>
    /\ IF IsMw(TopFn) THEN Top.done \in MwScripts ELSE Top.pc = "ret"
    /\ LET i == ReturnFni(decNext, fni)
       IN  IF NextContinues(i, Len(functions))
           THEN /\ fni' = i + 1
                /\ stack' = Append(Pop(stack), Frame(i + 1))
                /\ ran' = Append(ran, i + 1)
           ELSE /\ fni' = i
                /\ stack' = Pop(stack)
                /\ ran' = ran
    /\ noNext' = IF CalledNext(Top) THEN noNext ELSE noNext \cup {Top.pos}
    /\ UNCHANGED << cfgVars, sent, pool, pc, in, errors, response, endpoint, data,
                    headers, run, cancelled, result, called, lastOut, errHist,
                    twiceNext, attVars >>

\* Client.Do after req.Next() has returned
DoReturn ==
    /\ pc = "running" /\ stack = << >>
    /\ result' = DoResult(response, errors)
    /\ pc' = "done"
    /\ UNCHANGED << cfgVars, sent, pool, in, fni, errors, response, endpoint, data,
                    headers, stack, run, cancelled, histVars >>

\* a prepare that takes a nil marshaler for "no body" and records nothing
prepareOutcomeSkipsNilMarshaler(i, hdrs, f) ==
    LET mr   == Marshal(i.body)
        base == [endpoint |-> f.out, data |-> << >>, headers |-> hdrs,
                 err |-> NoErr, panic |-> FALSE]
    IN  IF f.err # NoErr
        THEN [base EXCEPT !.err = f.err]
        ELSE IF i.body # "nil" /\ i.marshaler # "nil"
        THEN IF mr.err # NoErr
             THEN [base EXCEPT !.data = mr.data, !.err = mr.err]
             ELSE IF hdrs.m["Content-Type"] = Absent
             THEN IF hdrs.isNil
                  THEN [base EXCEPT !.data = mr.data, !.panic = TRUE]
                  ELSE [base EXCEPT
                           !.data = mr.data,
                           !.headers.m["Content-Type"] = mr.ctype]
             ELSE [base EXCEPT !.data = mr.data]
        ELSE base

\* prepare up to its call of r.Next(): the endpoint, the data and the headers
\* it leaves, the error it records, and whether it faults on a nil headers map
prepareOutcome(i, hdrs, f) ==
    LET mr   == Marshal(i.body)
        base == [endpoint |-> f.out, data |-> << >>, headers |-> hdrs,
                 err |-> NoErr, panic |-> FALSE]
    IN  IF f.err # NoErr
        THEN [base EXCEPT !.err = f.err]
        ELSE IF i.body # "nil"
        THEN IF i.marshaler # "nil"
             THEN IF mr.err # NoErr
                  THEN [base EXCEPT !.data = mr.data, !.err = mr.err]
                  ELSE IF hdrs.m["Content-Type"] = Absent
                  THEN IF hdrs.isNil
                       THEN [base EXCEPT !.data = mr.data, !.panic = TRUE]
                       ELSE [base EXCEPT
                                !.data = mr.data,
                                !.headers.m["Content-Type"] = mr.ctype]
                  ELSE [base EXCEPT !.data = mr.data]
             ELSE [base EXCEPT !.err = ErrMarshalerNil]
        ELSE base

\* a prepare that goes on to r.Next() after recording its error
prepareAlwaysCallsNext(o) == TRUE

\* prepare calls r.Next() only when it has recorded no error
prepareCallsNext(o) == o.err = NoErr

prepare ==
    /\ pc = "running" /\ stack # << >>
    /\ TopFn = "prepare" /\ Top.pc = "start"
    /\ LET f == fmtEndpoint(pool, PipePageSize, PipePoolSize,
                            in.format, in.queryPrm, in.pathPrm)
           o == prepareOutcome(in, headers, f)
       IN  /\ pool' = f.pool
           /\ endpoint' = o.endpoint
           /\ data' = o.data
           /\ headers' = o.headers
           /\ IF o.panic
              THEN /\ pc' = "panic"
                   /\ UNCHANGED << fni, stack, ran, errors, errHist >>
              ELSE /\ pc' = pc
                   /\ IF o.err # NoErr
                      THEN Record(o.err)
                      ELSE UNCHANGED << errors, errHist >>
                   /\ IF prepareCallsNext(o)
                      THEN CallNext([Top EXCEPT !.pc = "ret",
                                                !.done = << "N" >>])
                      ELSE /\ stack' = SetTop(stack, [Top EXCEPT !.pc = "ret"])
                           /\ UNCHANGED << fni, ran >>
    /\ UNCHANGED << cfgVars, sent, in, response, run, cancelled, result, called,
                    lastOut, noNext, twiceNext, attVars >>

\* http.NewRequestWithContext rejects the method
BadMethod(m) == m = "\n"

\* execute: the request is built and sent once
execute ==
    /\ pc = "running" /\ stack # << >>
    /\ TopFn = "execute" /\ Top.pc = "start"
    /\ stack' = SetTop(stack, [Top EXCEPT !.pc = "ret"])
    /\ \/ /\ BadMethod(in.method)
          /\ Record(ErrNewRequest)
          /\ UNCHANGED << response, called, lastOut, sent >>
       \/ /\ ~BadMethod(in.method)
          /\ \E o \in TransportOutcomes(called + 1),
                ord \in Orders(PresentKeys(headers)) :
               /\ sent' = NewRequest(in.method, endpoint,
                                     freshBody(called, data), headers, ord)
               /\ called' = called + 1
               /\ lastOut' = o
               /\ response' = storeResponse(response, o)
               /\ IF o.err # NoErr
                  THEN Record(o.err)
                  ELSE UNCHANGED << errors, errHist >>
    /\ UNCHANGED << cfgVars, pool, pc, in, fni, endpoint, data, headers, run,
                    cancelled, result, ran, noNext, twiceNext, attVars >>

\* an executeWithRetrier that drops the error r.retr.Run returned
RunReturnsDropsError(err) ==
    /\ UNCHANGED << errors, errHist >>
    /\ stack' = SetTop(stack, [Top EXCEPT !.pc = "ret"])
    /\ run' = [run EXCEPT !.pc = "idle"]

\* executeWithRetrier after r.retr.Run has returned err
RunReturns(err) ==
    /\ IF err # NoErr THEN Record(err) ELSE UNCHANGED << errors, errHist >>
    /\ stack' = SetTop(stack, [Top EXCEPT !.pc = "ret"])
    /\ run' = [run EXCEPT !.pc = "idle"]

\* executeWithRetrier: one run of the work function inside the retrier's loop
executeWithRetrier ==
    /\ pc = "running" /\ stack # << >>
    /\ TopFn = "executeWithRetrier" /\ Top.pc = "start"
    /\ run.pc \in {"idle", "attempt"}
    /\ \/ /\ BadMethod(in.method)
          /\ RunReturns(ErrNewRequest)
          /\ allRetry' = FALSE
          /\ allStatus' = FALSE
          /\ UNCHANGED << response, called, lastOut, sent >>
       \/ /\ ~BadMethod(in.method)
          /\ \E o \in TransportOutcomes(CountCall(called)),
                ord \in Orders(PresentKeys(headers)) :
               LET sr == ShouldRetry(retr.retryCodes, o.res, o.err)
               IN  /\ sent' = NewRequest(in.method, endpoint,
                                         freshBody(called, data), headers, ord)
                   /\ called' = CountCall(called)
                   /\ lastOut' = o
                   /\ response' = storeResponse(response, o)
                   /\ allRetry' = (allRetry /\ sr.retry)
                   /\ allStatus' = /\ allStatus
                                   /\ o.err = NoErr
                                   /\ o.res.status \in retr.retryCodes
                   /\ IF runStops(sr.retry)
                      THEN RunReturns(sr.err)
                      ELSE /\ run' = [run EXCEPT !.pc = "wait", !.err = sr.err]
                           /\ UNCHANGED << errors, errHist, stack >>
    /\ UNCHANGED << cfgVars, pool, pc, in, fni, endpoint, data, headers,
                    cancelled, result, ran, noNext, twiceNext >>

\* the retrier's loop after a retry-eligible attempt: the wait for the delay or
\* for the cancellation, the increment of the counter and the loop condition
RunCtxWait ==
    /\ pc = "running" /\ stack # << >>
    /\ TopFn = "executeWithRetrier" /\ run.pc = "wait"
    /\ IF cancelled /\ RunWithCtx
       THEN RunReturns(ErrCtx)
       ELSE IF RunCtxContinue(run.retries + 1, retr.max)
       THEN /\ run' = [run EXCEPT !.pc = "attempt", !.retries = CountCall(@)]
            /\ UNCHANGED << errors, errHist, stack >>
       ELSE /\ RunReturns(ErrMaxRetries(run.err))
    /\ UNCHANGED << cfgVars, sent, pool, pc, in, fni, response, endpoint, data,
                    headers, cancelled, result, ran, called, lastOut, noNext,
                    twiceNext, attVars >>

\* the call's context is done (cancelled, or its deadline passed) by the time
\* the retrier waits; only the retrier's wait observes it
Cancel ==
    /\ pc = "running" /\ ~cancelled
    /\ run.pc = "wait"
    /\ cancelled' = TRUE
    /\ UNCHANGED << cfgVars, sent, pool, pc, in, fni, errors, response, endpoint,
                    data, headers, stack, run, result, histVars >>

\* the call's context is done while the retrier is not waiting: before an
\* attempt or during it
CancelRun ==
    /\ pc = "running" /\ ~cancelled
    /\ stack # << >> /\ TopFn = "executeWithRetrier" /\ Top.pc = "start"
    /\ run.pc # "wait"
    /\ cancelled' = TRUE
    /\ UNCHANGED << cfgVars, sent, pool, pc, in, fni, errors, response, endpoint,
                    data, headers, stack, run, result, histVars >>

Next ==
    \/ Do
    \/ MwError
    \/ MwNext
    \/ Return
    \/ DoReturn
    \/ prepare
    \/ execute
    \/ executeWithRetrier
    \/ RunCtxWait
    \/ Cancel

Spec == Init /\ [][Next]_vars

\* The calls of a client whose context may be done at any point of the
\* retrier's run.  Each transport invocation returns, and the retrier's wait
\* ends with the delay or with the context.
NextRun == Next \/ CancelRun

SpecRun ==
    /\ Init /\ [][NextRun]_vars
    /\ WF_vars(executeWithRetrier)
    /\ WF_vars(RunCtxWait)

(***************************************************************************)
(* ShouldRetry called directly, on any response and error, by retriers    *)
(* with any allowlist.                                                     *)
(***************************************************************************)
StatusInputs == {100, 200, 204, 299, 300, 301, 404, 418, 500, 503}
AllowCodes == {300, 404, 500}
ErrInputs == {NoErr, ErrTransport, ErrCtx}

InitShouldRetry ==
    /\ decNext = FALSE
    /\ hlmiddlewares = 0
    /\ llmiddlewares = 0
    /\ retr \in { NewBasicRetrier(0) }
                \cup { NewStatusCodeRetrier(0, c) : c \in SUBSET AllowCodes }
    /\ functions = NewClient(hlmiddlewares, llmiddlewares, retr)
    /\ InitCall

\* r.ShouldRetry(res, err), for a response (nil only with an error) and an error
ShouldRetryCall ==
    /\ \E st \in StatusInputs \cup {0}, e \in ErrInputs :
         /\ st = 0 => e # NoErr
         /\ srCall' = [res |-> IF st = 0 THEN NilResp ELSE Resp(st, 1),
                       err |-> e,
                       out |-> ShouldRetry(retr.retryCodes,
                                  IF st = 0 THEN NilResp ELSE Resp(st, 1), e)]
    /\ UNCHANGED << decNext, hlmiddlewares, llmiddlewares, retr, functions,
                    fmtCall, mem, escCall, use, conc, wcall,
                    sent, pool, pc, in, fni, errors, response, endpoint, data,
                    headers, stack, run, cancelled, result, histVars >>

SpecShouldRetry == InitShouldRetry /\ [][ShouldRetryCall]_vars

(***************************************************************************)
(* fmtEndpoint called directly, on any template, parameters and query     *)
(* map, with a pool of any page size.                                      *)
(***************************************************************************)
\* the strings of bytes of B of length at most n
Strings(B, n) == UNION { [1..k -> B] : k \in 0..n }

\* the bytes of a template: a letter and the two braces
FmtBytes == {97, LBrace, RBrace}
\* path parameters, query keys and values: one that is copied, two that are
\* escaped
PrmStrings == { << 98 >>, << 32 >>, << 98, 32 >> }
\* query maps in iteration order: empty, a key without values, one pair, two
\* values of one key, two keys, and a key whose bytes are escaped
QueryMaps ==
    { << >>,
      << [k |-> << 97 >>, vs |-> << >>] >>,
      << [k |-> << 97 >>, vs |-> << << 98 >> >>] >>,
      << [k |-> << 97 >>, vs |-> << << 98 >>, << 32 >> >>] >>,
      << [k |-> << 97 >>, vs |-> << << 98 >> >>],
         [k |-> << 98 >>, vs |-> << << 97 >> >>] >>,
      << [k |-> << 32 >>, vs |-> << << 98, 32 >>, << 98 >> >>] >> }

InitFmt ==
    /\ decNext = FALSE
    /\ hlmiddlewares = 0
    /\ llmiddlewares = 0
    /\ retr = NoRetrier
    /\ functions = NewClient(hlmiddlewares, llmiddlewares, retr)
    /\ srCall = NoSrCall
    /\ mem = NewMemPool(PipePageSize, PipePoolSize)
    /\ escCall = NoEscCall
    /\ use = UseClient
    /\ conc = NoConc
    /\ wcall = << >>
    /\ \E ps \in 1..MaxFmtPage, f \in Strings(FmtBytes, MaxFmtLen),
          q \in QueryMaps, pp \in Strings(PrmStrings, MaxPathPrm) :
         \E pl \in { << >>, << NewPage(ps) >> } :
         fmtCall = [NoFmtCall EXCEPT !.pageSize = ps, !.pool = pl,
                                     !.format = f, !.queryPrm = q,
                                     !.pathPrm = pp]
    /\ InitRequest

\* r.fmtEndpoint(format, queryPrm, pathPrm) on a request whose pool is fmtCall.pool
fmtEndpointCall ==
    /\ ~fmtCall.called
    /\ LET f == fmtEndpoint(fmtCall.pool, fmtCall.pageSize, PipePoolSize,
                            fmtCall.format, fmtCall.queryPrm, fmtCall.pathPrm)
       IN  fmtCall' = [fmtCall EXCEPT !.called = TRUE, !.out = f.out,
                                      !.err = f.err, !.poolAfter = f.pool,
                                      !.written = f.written]
    /\ UNCHANGED << decNext, hlmiddlewares, llmiddlewares, retr, functions,
                    srCall, mem, escCall, use, conc, wcall,
                    sent, pool, pc, in, fni, errors, response, endpoint,
                    data, headers, stack, run, cancelled, result, histVars >>

SpecFmt == InitFmt /\ [][fmtEndpointCall]_vars

(***************************************************************************)
(* A MemPool used directly by concurrent requests.  Each byte array has   *)
(* an identity (id).  A channel operation is one step: Acquire is one,    *)
(* Release is one per page passed to it.                                  *)
(***************************************************************************)
InitPool ==
    /\ decNext = FALSE
    /\ hlmiddlewares = 0
    /\ llmiddlewares = 0
    /\ retr = NoRetrier
    /\ functions = NewClient(hlmiddlewares, llmiddlewares, retr)
    /\ srCall = NoSrCall
    /\ fmtCall = NoFmtCall
    /\ escCall = NoEscCall
    /\ use = UseClient
    /\ conc = NoConc
    /\ wcall = << >>
    /\ \E ps \in 1..MaxPoolPage, n \in 0..MaxPoolSize :
         mem = NewMemPool(ps, n)
    /\ InitRequest

\* a select without a default case: it waits until its channel operation can
\* proceed
selectWithoutDefault(caseReady) == caseReady

\* the select of Acquire and of Release: the channel operation is taken when
\* it can proceed at once, the default case otherwise
selectProceeds(caseReady) == caseReady \/ TRUE

\* the page as its holder passes it to Release: written to
Written(page) ==
    [page EXCEPT !.dat = IF page.cap > 0 THEN << 97 >> ELSE << >>]

\* m.Acquire() by request p
AcquireCall(p) ==
    /\ mem.relq[p] = << >>
    /\ Cardinality(mem.held[p]) < MaxHeld
    /\ Len(mem.pool) = 0 => mem.nextId <= MaxPages
    /\ selectProceeds(Len(mem.pool) > 0)
    /\ LET a     == Acquire([pool |-> mem.pool, pageSize |-> mem.pageSize])
           fresh == Len(mem.pool) = 0
           page  == IF fresh
                    THEN [dat |-> a.page.dat, cap |-> a.page.cap,
                          id |-> mem.nextId]
                    ELSE a.page
       IN  mem' = [mem EXCEPT
                     !.pool = a.w.pool,
                     !.held[p] = @ \cup {page},
                     !.nextId = IF fresh THEN @ + 1 ELSE @,
                     !.made = IF fresh THEN @ \cup {page.id} ELSE @,
                     !.reused = IF fresh THEN @ ELSE @ \cup {page.id}]

\* m.Release(pages...) by request p, entered: the pages are some of the pages
\* it holds, the array allocated last first (writer.release passes the
\* current page, then the store)
ReleaseCall(p) ==
    /\ mem.relq[p] = << >>
    /\ \E k \in 1..Cardinality(mem.held[p]) :
         \E sq \in [1..k -> mem.held[p]] :
            /\ \A i, j \in 1..k : i < j => sq[i].id > sq[j].id
            /\ mem' = [mem EXCEPT
                         !.relq[p] = [i \in 1..k |-> Written(sq[i])],
                         !.held[p] = @ \ {sq[i] : i \in 1..k}]

\* the capacity of an array that did not come from the pool
ForeignCap(pageSize) == pageSize + 1

\* m.Release(pages...) entered with a byte array that did not come from the
\* pool, larger than the pool's pages and filled, passed once or twice
ReleaseForeign(p) ==
    /\ mem.relq[p] = << >>
    /\ mem.nextId <= MaxPages
    /\ \E c \in {ForeignCap(mem.pageSize)}, two \in BOOLEAN :
         LET page == [dat |-> [i \in 1..c |-> 97], cap |-> c,
                      id |-> mem.nextId]
         IN  mem' = [mem EXCEPT
                       !.relq[p] = IF two THEN << page, page >>
                                   ELSE << page >>,
                       !.twice = IF two THEN @ \cup {page.id} ELSE @,
                       !.nextId = @ + 1]

\* one iteration of the loop of Release: the select that offers mem[i][:0]
ReleaseStep(p) ==
    /\ mem.relq[p] # << >>
    /\ selectProceeds(Len(mem.pool) < mem.poolSize)
    /\ mem' = [mem EXCEPT
                 !.pool = ReleasePages(mem.pool, mem.poolSize,
                                       << Head(mem.relq[p]) >>),
                 !.relq[p] = Tail(@)]

NextPool ==
    /\ \E p \in Procs :
         \/ AcquireCall(p)
         \/ ReleaseCall(p)
         \/ ReleaseForeign(p)
         \/ ReleaseStep(p)
    /\ UNCHANGED << decNext, hlmiddlewares, llmiddlewares, retr, functions,
                    srCall, fmtCall, escCall, use, conc, wcall,
                    sent, pool, pc, in, fni, errors, response,
                    endpoint, data, headers, stack, run, cancelled, result,
                    histVars >>

SpecPool == InitPool /\ [][NextPool]_vars

(***************************************************************************)
(* writeEscaped called directly on a new writer, for any string and page  *)
(* size.                                                                   *)
(***************************************************************************)
\* the bytes of the strings: a ~ (unreserved), space % / and 255 (escaped)
EscBytes == {97, 126, 32, 37, 47, 255}

InitEsc ==
    /\ decNext = FALSE
    /\ hlmiddlewares = 0
    /\ llmiddlewares = 0
    /\ retr = NoRetrier
    /\ functions = NewClient(hlmiddlewares, llmiddlewares, retr)
    /\ srCall = NoSrCall
    /\ fmtCall = NoFmtCall
    /\ mem = NewMemPool(PipePageSize, PipePoolSize)
    /\ use = UseClient
    /\ conc = NoConc
    /\ wcall = << >>
    /\ \E ps \in 1..MaxFmtPage, str \in Strings(EscBytes, MaxStrLen) :
         escCall = [NoEscCall EXCEPT !.pageSize = ps, !.str = str]
    /\ InitRequest

\* newWrirter(mem).writeEscaped(str), then buf.build(nil)
writeEscapedCall ==
    /\ ~escCall.called
    /\ LET w == writeEscaped(newWrirter(<< >>, escCall.pageSize, PipePoolSize),
                             escCall.str)
       IN  escCall' = [escCall EXCEPT !.called = TRUE, !.out = bufBuild(w)]
    /\ UNCHANGED << decNext, hlmiddlewares, llmiddlewares, retr, functions,
                    srCall, fmtCall, mem, use, conc, wcall,
                    sent, pool, pc, in, fni, errors, response,
                    endpoint, data, headers, stack, run, cancelled, result,
                    histVars >>

SpecEsc == InitEsc /\ [][writeEscapedCall]_vars

(***************************************************************************)
(* The calls of a client whose Next decrements the cursor after the stage  *)
(* returns (r.fni-- after r.fns[r.fni-1](r.ctx, r)).  That client has no   *)
(* retrier: its chain ends with execute.                                   *)
(***************************************************************************)
InitDec ==
    /\ decNext = TRUE
    /\ hlmiddlewares \in 0..MaxMw
    /\ llmiddlewares \in 0..(MaxMw - hlmiddlewares)
    /\ retr = NoRetrier
    /\ functions = NewClient(hlmiddlewares, llmiddlewares, retr)
    /\ InitCall

NextDec ==
    \/ Do
    \/ MwError
    \/ MwNext
    \/ Return
    \/ DoReturn
    \/ prepare
    \/ execute

SpecDec == InitDec /\ [][NextDec]_vars

(***************************************************************************)
(* Concurrent calls of Do on one client.  Each call has its Request; the  *)
(* calls share the chain (read only) and the memory pool.  A call's steps *)
(* are functions of its Request and of the pool it is given, so that the  *)
(* same step can be taken by the call among the others and by the call    *)
(* alone.  A stage calls Next as its last statement.  The steps of one    *)
(* call between which the others can act: Do, each middleware, prepare up *)
(* to the deferred release of its writer (the pages are held), the        *)
(* release and the rest of prepare, execute, the return of Do.            *)
(***************************************************************************)
\* the calls made concurrently: two that format different endpoints over
\* several pages and one whose template is rejected
ConcInputs ==
    { Input(FormatOk, PathOk, QueryOne, "ok", "json",
            MakeHeaders(Absent, "x.y.z"), "GET"),
      Input(<< 97, 97, 97 >>, << >>, << >>, "nil", "nil", NilHeaders, "GET"),
      Input(<< LBrace, 97 >>, << >>, << >>, "nil", "nil", NilHeaders, "GET") }

InitConc ==
    /\ decNext = FALSE
    /\ hlmiddlewares \in 0..1
    /\ llmiddlewares = 0
    /\ retr = NoRetrier
    /\ functions = NewClient(hlmiddlewares, llmiddlewares, retr)
    /\ InitCall

\* newRequest and the first req.Next() of Do
reqDo(i) ==
    [IdleReq EXCEPT !.pc = "stage", !.in = i, !.headers = i.headers,
                    !.fni = NextFni(0, Len(functions)),
                    !.ran = << NextFni(0, Len(functions)) >>]

\* r.Next() as the last statement of a stage
reqNext(r) ==
    IF r.fni < Len(functions)
    THEN [r EXCEPT !.pc = "stage",
                   !.fni = NextFni(r.fni, Len(functions)),
                   !.ran = Append(@, NextFni(r.fni, Len(functions)))]
    ELSE [r EXCEPT !.pc = "ret"]

\* a middleware
reqMw(r, script) ==
    LET r1 == IF script[1] = "E"
              THEN [r EXCEPT !.errors = Append(@, ErrMw(r.fni))] ELSE r
    IN  IF script[Len(script)] = "N" THEN reqNext(r1)
        ELSE [r1 EXCEPT !.pc = "ret"]

\* prepare: fmtEndpoint up to its deferred release; f is what it wrote, with
\* pages of the pool it was given if reused
reqPrepareWrite(r, f, reused) ==
    [r EXCEPT !.pc = "release", !.w = f.w, !.endpoint = f.out,
              !.ferr = f.err, !.reused = reused]

\* prepare: the deferred release into the pool pl, and the rest of prepare
reqPrepareRest(r, pl) ==
    LET o  == prepareOutcome(r.in, r.headers,
                             [out |-> r.endpoint, err |-> r.ferr])
        r1 == [r EXCEPT !.w = IdleReq.w, !.endpoint = o.endpoint,
                        !.data = o.data, !.headers = o.headers]
    IN  [r |-> IF o.panic THEN [r1 EXCEPT !.pc = "panic"]
               ELSE IF o.err # NoErr
               THEN [r1 EXCEPT !.pc = "ret", !.errors = Append(@, o.err)]
               ELSE IF prepareCallsNext(o) THEN reqNext(r1)
               ELSE [r1 EXCEPT !.pc = "ret"],
         pool |-> release([r.w EXCEPT !.pool = pl])]

\* execute, the transport returning o
reqExecute(r, o) ==
    IF BadMethod(r.in.method)
    THEN [r EXCEPT !.pc = "ret", !.errors = Append(@, ErrNewRequest)]
    ELSE [r EXCEPT !.pc = "ret",
                   !.response = storeResponse(r.response, o),
                   !.errors = IF o.err # NoErr THEN Append(@, o.err) ELSE @]

\* Do after req.Next()
reqReturn(r) ==
    [r EXCEPT !.pc = "done", !.result = DoResult(r.response, r.errors)]

ConcDo(p) ==
    /\ conc.real[p].pc = "idle"
    /\ \E i \in ConcInputs :
         conc' = [conc EXCEPT !.real[p] = reqDo(i), !.alone[p] = reqDo(i)]

ConcMw(p) ==
    /\ conc.real[p].pc = "stage" /\ IsMw(functions[conc.real[p].fni].fn)
    \* the middleware calls Next, records an error, or both
    /\ \E sc \in { << "N" >>, << "E" >>, << "E", "N" >> } :
         conc' = [conc EXCEPT !.real[p] = reqMw(@, sc),
                              !.alone[p] = reqMw(@, sc)]

ConcPrepareWrite(p) ==
    /\ conc.real[p].pc = "stage" /\ functions[conc.real[p].fni].fn = "prepare"
    /\ \E a \in { fmtWrite(conc.pool, PipePageSize, PipePoolSize,
                            conc.real[p].in.format, conc.real[p].in.queryPrm,
                            conc.real[p].in.pathPrm) },
          b \in { fmtWrite(conc.apool[p], PipePageSize, PipePoolSize,
                            conc.alone[p].in.format, conc.alone[p].in.queryPrm,
                            conc.alone[p].in.pathPrm) } :
         conc' = [conc EXCEPT
                    !.real[p] = reqPrepareWrite(@, a, Len(conc.pool) > 0),
                    !.pool = a.w.pool,
                    !.alone[p] = reqPrepareWrite(@, b, Len(conc.apool[p]) > 0),
                    !.apool[p] = b.w.pool]

ConcPrepareRest(p) ==
    /\ conc.real[p].pc = "release"
    /\ LET a == reqPrepareRest(conc.real[p], conc.pool)
           b == reqPrepareRest(conc.alone[p], conc.apool[p])
       IN  conc' = [conc EXCEPT !.real[p] = a.r, !.pool = a.pool,
                                !.alone[p] = b.r, !.apool[p] = b.pool]

ConcExecute(p) ==
    /\ conc.real[p].pc = "stage" /\ functions[conc.real[p].fni].fn = "execute"
    /\ \E o \in TransportOutcomes(1) :
         conc' = [conc EXCEPT !.real[p] = reqExecute(@, o),
                              !.alone[p] = reqExecute(@, o)]

ConcReturn(p) ==
    /\ conc.real[p].pc = "ret"
    /\ conc' = [conc EXCEPT !.real[p] = reqReturn(@),
                            !.alone[p] = reqReturn(@)]

NextConc ==
    /\ \E p \in Procs :
         \/ ConcDo(p)
         \/ ConcMw(p)
         \/ ConcPrepareWrite(p)
         \/ ConcPrepareRest(p)
         \/ ConcExecute(p)
         \/ ConcReturn(p)
    /\ UNCHANGED << decNext, hlmiddlewares, llmiddlewares, retr, functions,
                    srCall, fmtCall, mem, escCall, use, wcall, sent, pool, pc, in,
                    fni, errors, response, endpoint, data, headers, stack, run,
                    cancelled, result, histVars >>

SpecConc == InitConc /\ [][NextConc]_vars

(***************************************************************************)
(* The client of the version that registers middlewares with Use          *)
(* (MDW_BeforeBuild: l2mdw, MDW_BeforeExecute: l1mdw), one thread calling  *)
(* Use and one calling Do.  Use is an append and an assignment of the     *)
(* slice, Do builds its chain from the two lists; neither takes a lock.   *)
(* What a read of a slice returns while another thread assigns it is not  *)
(* defined: the old slice, the new one, or the new length over elements   *)
(* not yet written.                                                        *)
(***************************************************************************)
InitUse ==
    /\ decNext = FALSE
    /\ hlmiddlewares = 0
    /\ llmiddlewares = 0
    /\ retr = NoRetrier
    /\ functions = NewClient(hlmiddlewares, llmiddlewares, retr)
    /\ InitCall

UseList(stage) == IF stage = "l2" THEN use.l2mdw ELSE use.l1mdw

\* what a read of a list can return while Use assigns new to it
TornReads(old, new) ==
    { old }
    \cup { [i \in 1..Len(new) |->
              IF i <= Len(old) \/ i \in S THEN new[i] ELSE NilMw] :
            S \in SUBSET ((Len(old) + 1)..Len(new)) }

\* what Do reads from the list of a stage
ReadList(stage) ==
    IF use.wr.stage = stage
    THEN TornReads(UseList(stage), use.wr.new)
    ELSE { UseList(stage) }

\* c.Use(stage, middlewares...) up to the assignment of the appended slice;
\* an invalid stage returns an error and changes nothing
UseBegin ==
    /\ use.wr.stage = "none"
    /\ use.uses < MaxUse
    /\ \E stage \in {"l2", "l1", "invalid"}, k \in 1..MaxBatch :
         LET b == use.uses + 1
         IN  use' = [use EXCEPT
                       !.uses = b,
                       !.sizes[b] = IF stage = "invalid" THEN 0 ELSE k,
                       !.wr = IF stage = "invalid" THEN @
                              ELSE [stage |-> stage,
                                    new |-> UseList(stage)
                                            \o [i \in 1..k |-> Mw(b, i)]]]

\* the assignment c.l2mdw = ... (or c.l1mdw = ...) is complete
UseEnd ==
    /\ use.wr.stage # "none"
    /\ use' = [use EXCEPT
                  !.l2mdw = IF use.wr.stage = "l2" THEN use.wr.new ELSE @,
                  !.l1mdw = IF use.wr.stage = "l1" THEN use.wr.new ELSE @,
                  !.wr = [stage |-> "none", new |-> << >>]]

\* Do: make([]func, 0, len(c.l1mdw)+len(c.l2mdw)+2)
DoMake ==
    /\ use.dpc = "idle"
    /\ use' = [use EXCEPT !.dpc = "made",
                          !.racy = @ \/ use.wr.stage # "none"]

\* Do: fns = append(fns, c.l2mdw...); fns = append(fns, prepare)
DoAppendL2 ==
    /\ use.dpc = "made"
    /\ \E v \in ReadList("l2") :
         use' = [use EXCEPT !.dpc = "l2",
                            !.fns = v \o << PrepareMw >>,
                            !.racy = @ \/ use.wr.stage = "l2"]

\* Do: fns = append(fns, c.l1mdw...); fns = append(fns, execute)
DoAppendL1 ==
    /\ use.dpc = "l2"
    /\ \E v \in ReadList("l1") :
         use' = [use EXCEPT !.dpc = "l1",
                            !.fns = @ \o v \o << ExecuteMw >>,
                            !.racy = @ \/ use.wr.stage = "l1"]

\* Do: newRequest over fns, req.Next() and the return
DoRun ==
    /\ use.dpc = "l1"
    /\ use' = [use EXCEPT !.dpc = "done"]

NextUse ==
    /\ \/ UseBegin
       \/ UseEnd
       \/ DoMake
       \/ DoAppendL2
       \/ DoAppendL1
       \/ DoRun
    /\ UNCHANGED << decNext, hlmiddlewares, llmiddlewares, retr, functions,
                    srCall, fmtCall, mem, escCall, conc, wcall, sent, pool, pc, in,
                    fni, errors, response, endpoint, data, headers, stack, run,
                    cancelled, result, histVars >>

SpecUse == InitUse /\ [][NextUse]_vars

(***************************************************************************)
(* Properties.                                                             *)
(***************************************************************************)
Last == Len(functions)
Ran(pos) == \E k \in 1..Len(ran) : ran[k] = pos
ByMiddleware(e) == IsMw(functions[e.pos].fn)
\* no stage before the execute stage has recorded an error
NoEarlierError == \A k \in 1..Len(errHist) : errHist[k].pos = Last
Done == pc = "done"

\* C1: the chain of every configuration is the high-level middlewares in
\* registration order, prepare, the low-level middlewares in registration
\* order and one execute stage, executeWithRetrier exactly when a retrier is
\* configured (|hl| + |ll| + 2 stages), and a call runs the stages in the
\* order of the chain.
C1_StageOrder ==
    /\ Len(functions) = hlmiddlewares + llmiddlewares + 2
    /\ \A i \in 1..hlmiddlewares : functions[i] = Stage("hl", i)
    /\ functions[hlmiddlewares + 1] = Stage("prepare", 0)
    /\ \A i \in 1..llmiddlewares :
          functions[hlmiddlewares + 1 + i] = Stage("ll", i)
    /\ functions[Last].fn \in {"execute", "executeWithRetrier"}
    /\ functions[Last].fn = "executeWithRetrier" <=> retr.present
    /\ \A i \in 1..(Last - 1) :
          functions[i].fn \notin {"execute", "executeWithRetrier"}
    /\ \A k \in 1..Len(ran) : ran[k] = k

C1_Witness ==
    /\ Done
    /\ hlmiddlewares = 1 /\ llmiddlewares = 1 /\ retr.present
    /\ ran = << 1, 2, 3, 4 >>
    /\ called = 1

\* C2 as stated: once a stage has recorded an error, no stage later in the
\* chain than the recording stage is run.
C2_NoStageAfterError ==
    \A e \in 1..Len(errHist) : \A k \in 1..Len(ran) :
        k > errHist[e].nran => ran[k] <= errHist[e].pos

\* C2 amended: once prepare or the execute stage has recorded an error, no
\* later stage is run unless a middleware before it calls Next again; when
\* prepare has recorded an error and no high-level middleware calls Next a
\* second time, the transport is never invoked.
C2_BuiltinFailFast ==
    \A e \in 1..Len(errHist) :
        LET p == errHist[e].pos
        IN  (~ByMiddleware(errHist[e]) /\ twiceNext \cap 1..(p - 1) = {})
            => /\ \A k \in 1..Len(ran) : ran[k] <= p
               /\ functions[p].fn = "prepare" => called = 0

C2_Witness ==
    /\ Done
    /\ hlmiddlewares = 1 /\ llmiddlewares = 1
    /\ twiceNext = {}
    /\ Len(errHist) = 1 /\ functions[errHist[1].pos].fn = "prepare"
    /\ ran = << 1, 2 >>
    /\ called = 0

\* C3 as stated: if the stage at position i returned without calling Next, no
\* stage at a position greater than i is run, and the transport is not invoked
\* when the execute stage lies after i.
C3_NoStageAfterSkip ==
    \A i \in noNext :
        /\ \A k \in 1..Len(ran) : ran[k] <= i
        /\ i < Last => called = 0

\* C3 amended: if the stage at position i returned without calling Next and no
\* stage before i calls Next a second time, no stage at a position greater than
\* i is run and the transport is not invoked when the execute stage lies after
\* i.
C3_NoStageAfterSkipOnce ==
    \A i \in noNext :
        twiceNext \cap 1..(i - 1) = {}
        => /\ \A k \in 1..Len(ran) : ran[k] <= i
           /\ i < Last => called = 0

C3_Witness ==
    /\ Done
    /\ hlmiddlewares = 1 /\ llmiddlewares = 1
    /\ noNext = {3}
    /\ twiceNext = {}
    /\ errHist = << >>
    /\ ran = << 1, 2, 3 >>
    /\ called = 0

\* C4: Do returns as its error the first error recorded in the call, and a nil
\* error exactly when no error was recorded.
C4_FirstError ==
    Done => /\ result.err = IF errHist = << >> THEN NoErr ELSE errHist[1].err
            /\ result.err = NoErr <=> errHist = << >>

C4_Witness ==
    /\ Done
    /\ Len(errHist) >= 2
    /\ errHist[1].err # errHist[Len(errHist)].err
    /\ result.err = errHist[1].err

\* C5 as stated: whenever Do returns a nil error, the response it returns is
\* the non-nil response the transport produced in that call.
C5_NilErrorHasResponse ==
    (Done /\ result.err = NoErr)
    => /\ result.res # NilResp
       /\ called >= 1 /\ result.res = lastOut.res

\* C5 amended: whenever Do returns a nil error and the execute stage was run in
\* that call, the response it returns is the non-nil response the transport
\* produced in its last invocation.
C5_NilErrorAfterExecute ==
    (Done /\ result.err = NoErr /\ Ran(Last))
    => /\ result.res # NilResp
       /\ called >= 1 /\ result.res = lastOut.res
       /\ result.res.call = called

C5_Witness ==
    /\ Done /\ result.err = NoErr /\ Ran(Last)
    /\ hlmiddlewares + llmiddlewares = 2
    /\ result.res = Resp(200, 1)

\* C6: with no retrier, when the transport returns a response of any status
\* with a nil error (and no earlier stage recorded an error), Do returns that
\* response with a nil error after exactly one transport invocation.
C6_NoRetrierAnyStatus ==
    (Done /\ ~retr.present /\ called >= 1 /\ lastOut.err = NoErr /\ NoEarlierError)
    => /\ result = [res |-> lastOut.res, err |-> NoErr]
       /\ result.res.status \in Statuses
       /\ called = 1

C6_Witness ==
    /\ Done /\ ~retr.present
    /\ lastOut = [res |-> Resp(500, 1), err |-> NoErr]
    /\ result = [res |-> Resp(500, 1), err |-> NoErr]

\* the call ended with the retries of a finite retrier exhausted by attempts
\* that each returned a status of the allowlist with a nil error
StatusExhausted ==
    /\ Done /\ retr.present /\ retr.max >= 0
    /\ called = retr.max + 1
    /\ allStatus /\ ~cancelled /\ NoEarlierError

\* C7 as stated: when a status-code retrier exhausts its retries on a
\* retry-eligible status, Do returns a nil response with the terminal error.
C7_ExhaustedNilResponse ==
    StatusExhausted
    => /\ result.res = NilResp
       /\ result.err = ErrMaxRetries(ErrStatus(lastOut.res.status))

\* C7 amended: when a status-code retrier exhausts its retries on a
\* retry-eligible status, Do returns the terminal error together with the
\* response of the last attempt, which is not nil.
C7_ExhaustedLastResponse ==
    StatusExhausted
    => /\ result.res = lastOut.res
       /\ result.res # NilResp
       /\ result.res.call = called
       /\ result.err = ErrMaxRetries(ErrStatus(lastOut.res.status))

C7_Witness ==
    /\ StatusExhausted
    /\ retr.max = 1
    /\ result = [res |-> Resp(500, 2),
                 err |-> ErrMaxRetries(ErrStatus(500))]

\* C8: for a finite maximum N >= 0, when every attempt is retry-eligible and no
\* cancellation occurs, the operation is invoked exactly N + 1 times and the
\* error the run ends with wraps the error of the last attempt.
C8_ExactlyMaxPlusOne ==
    (Done /\ retr.present /\ retr.max >= 0 /\ called >= 1
          /\ allRetry /\ ~cancelled)
    => /\ called = retr.max + 1
       /\ \E e \in 1..Len(errHist) :
             /\ errHist[e].pos = Last
             /\ errHist[e].err =
                  ErrMaxRetries(ShouldRetry(retr.retryCodes, lastOut.res,
                                            lastOut.err).err)
             /\ errHist[e].err.wrapped

C8_Witness ==
    /\ Done /\ retr.present /\ retr.max = MaxRetries
    /\ allRetry /\ ~cancelled
    /\ called = MaxRetries + 1
    /\ lastOut.err = ErrTransport
    /\ result.err = ErrMaxRetries(ErrTransport)

SrCalled == srCall # NoSrCall

\* C9: ShouldRetry(res, err) returns (err, retry) when err is not nil;
\* otherwise, for a status N above 299, the error "request failed with status
\* code N" and retry exactly when N is in the allowlist; otherwise (nil, no
\* retry).
C9_ShouldRetry ==
    SrCalled =>
        IF srCall.err # NoErr
        THEN srCall.out = [err |-> srCall.err, retry |-> TRUE]
        ELSE IF srCall.res.status > 299
        THEN /\ srCall.out.err.kind = "request failed with status code"
             /\ srCall.out.err.code = srCall.res.status
             /\ ~srCall.out.err.wrapped
             /\ srCall.out.retry <=> srCall.res.status \in retr.retryCodes
        ELSE srCall.out = [err |-> NoErr, retry |-> FALSE]

C9_Witness ==
    /\ retr.retryCodes = {500}
    /\ srCall.res.status = 500 /\ srCall.err = NoErr
    /\ srCall.out.retry

InRun ==
    /\ pc = "running" /\ stack # << >>
    /\ TopFn = "executeWithRetrier" /\ Top.pc = "start"

\* the error that executeWithRetrier recorded, when it recorded one
RunError(e) ==
    \E k \in 1..Len(errHist) : errHist[k].pos = Last /\ errHist[k].err = e

\* C11: when the cancellation fires while the retrier waits between two
\* attempts, the operation is not invoked again, and the run returns the
\* cancellation error: neither the "failed after max retries" wrapper nor the
\* error of the last attempt is recorded.
C11_CancelDuringWait ==
    /\ [][cancelled => called' = called]_vars
    /\ [](cancelled =>
            /\ InRun => run.pc = "wait"
            /\ ~InRun => /\ RunError(ErrCtx)
                         /\ \A k \in 1..Len(errHist) :
                               errHist[k].pos = Last => errHist[k].err = ErrCtx)

C11_Witness ==
    /\ Done /\ cancelled
    /\ retr.max = 1 /\ called = 1
    /\ lastOut = [res |-> Resp(500, 1), err |-> NoErr]
    /\ result = [res |-> Resp(500, 1), err |-> ErrCtx]

\* C12: once the cancellation has fired, at any point of the retrier's run and
\* for every maximum (the unlimited one included), the run eventually returns.
C12_RunReturnsAfterCancel == (cancelled /\ InRun) ~> ~InRun

C12_Witness ==
    /\ Done /\ cancelled
    /\ retr.max = -1 /\ called >= 2
    /\ result.err = ErrCtx

(***************************************************************************)
(* The endpoint a template, its parameters and its query map stand for.   *)
(***************************************************************************)
RECURSIVE EscapeStr(_)
\* a string with every byte outside the unreserved set replaced by its %XX
EscapeStr(str) ==
    IF str = << >> THEN << >>
    ELSE (IF shouldEscape(Head(str)) THEN escape(Head(str))
          ELSE << Head(str) >>) \o EscapeStr(Tail(str))

\* the positions of the template at which a {} placeholder starts
PlaceholderAt(format) ==
    { i \in 1..(Len(format) - 1) :
        format[i] = LBrace /\ format[i + 1] = RBrace }
Placeholders(format) == Cardinality(PlaceholderAt(format))

\* every { is immediately followed by }, every } immediately preceded by {
OpenPaired(format) ==
    \A i \in 1..Len(format) :
        format[i] = LBrace => (i < Len(format) /\ format[i + 1] = RBrace)
ClosePaired(format) ==
    \A i \in 1..Len(format) :
        format[i] = RBrace => (i > 1 /\ format[i - 1] = LBrace)

RECURSIVE Substitute(_, _)
\* the template with its placeholders, left to right, replaced by the escaped
\* parameters and every other byte copied
Substitute(format, pathPrm) ==
    IF format = << >> THEN << >>
    ELSE IF /\ Len(format) >= 2 /\ format[1] = LBrace /\ format[2] = RBrace
            /\ pathPrm # << >>
    THEN EscapeStr(Head(pathPrm))
         \o Substitute(Tail(Tail(format)), Tail(pathPrm))
    ELSE << Head(format) >> \o Substitute(Tail(format), pathPrm)

RECURSIVE Pairs(_)
\* the (key, value) pairs of a query map, the values of a key in list order
Pairs(queryPrm) ==
    IF queryPrm = << >> THEN << >>
    ELSE [i \in 1..Len(Head(queryPrm).vs) |->
             [k |-> Head(queryPrm).k, v |-> Head(queryPrm).vs[i]]]
         \o Pairs(Tail(queryPrm))

RECURSIVE JoinPairs(_)
\* escaped-key = escaped-value of every pair, with & between consecutive pairs
JoinPairs(prs) ==
    IF prs = << >> THEN << >>
    ELSE EscapeStr(Head(prs).k) \o << Equals >> \o EscapeStr(Head(prs).v)
         \o (IF Tail(prs) = << >> THEN << >>
             ELSE << Ampersand >> \o JoinPairs(Tail(prs)))

IsPrefix(a, b) == Len(a) <= Len(b) /\ SubSeq(b, 1, Len(a)) = a

\* C13: for a template whose braces are exactly N well-formed {} placeholders
\* and a list of N path parameters, fmtEndpoint succeeds and its output is the
\* template with the i-th placeholder replaced by the escaped i-th parameter
\* and every other byte copied in order (followed by the query, when there is
\* one).
C13_PlaceholdersFilled ==
    (/\ fmtCall.called
     /\ OpenPaired(fmtCall.format) /\ ClosePaired(fmtCall.format)
     /\ Placeholders(fmtCall.format) = Len(fmtCall.pathPrm))
    => /\ fmtCall.err = NoErr
       /\ IsPrefix(Substitute(fmtCall.format, fmtCall.pathPrm), fmtCall.out)
       /\ fmtCall.queryPrm = << >>
          => fmtCall.out = Substitute(fmtCall.format, fmtCall.pathPrm)

C13_Witness ==
    /\ fmtCall.called
    /\ fmtCall.pageSize = 1
    /\ fmtCall.format = << 97, LBrace, RBrace >>
    /\ fmtCall.pathPrm = << << 98, 32 >> >>
    /\ fmtCall.queryPrm = << >>
    /\ fmtCall.out = << 97, 98, 37, 50, 48 >>

\* C14 as stated: when the number of {} placeholders differs from the number
\* of path parameters, formatting fails with "not enough parameters" when the
\* placeholders outnumber the parameters and with "too many parameters" when
\* the parameters outnumber the placeholders.
C14_CountMismatch ==
    (fmtCall.called /\ Placeholders(fmtCall.format) # Len(fmtCall.pathPrm))
    => IF Placeholders(fmtCall.format) > Len(fmtCall.pathPrm)
       THEN fmtCall.err = ErrNotEnough
       ELSE fmtCall.err = ErrTooMany

\* C14 amended: when the numbers differ, formatting fails; it fails with the
\* error of the mismatch ("not enough" or "too many") when every { of the
\* template is immediately followed by }, and otherwise with that error or the
\* "illegal character" error.
C14_CountMismatchFails ==
    (fmtCall.called /\ Placeholders(fmtCall.format) # Len(fmtCall.pathPrm))
    => LET mismatch ==
               IF Placeholders(fmtCall.format) > Len(fmtCall.pathPrm)
               THEN ErrNotEnough ELSE ErrTooMany
       IN  /\ fmtCall.err \in {mismatch, ErrIllegal}
           /\ fmtCall.out = << >>
           /\ OpenPaired(fmtCall.format) => fmtCall.err = mismatch

C14_Witness ==
    /\ fmtCall.called
    /\ fmtCall.format = << LBrace, RBrace, 97 >>
    /\ fmtCall.pathPrm = << << 98 >>, << 32 >> >>
    /\ fmtCall.err = ErrTooMany

\* C15 as stated: formatting fails for every template that contains a { not
\* immediately followed by } or a } not immediately preceded by {.
C15_UnpairedBraceFails ==
    (/\ fmtCall.called
     /\ ~(OpenPaired(fmtCall.format) /\ ClosePaired(fmtCall.format)))
    => fmtCall.err # NoErr

\* C16 as stated: for a query map with at least one value, the formatted
\* endpoint is the path followed by ?, then every (key, value) pair once as
\* escaped-key = escaped-value, with one & between consecutive pairs, for
\* every page size and endpoint length.
C16_QueryPairsJoined ==
    (fmtCall.called /\ fmtCall.err = NoErr /\ Pairs(fmtCall.queryPrm) # << >>)
    => fmtCall.out = Substitute(fmtCall.format, fmtCall.pathPrm)
                     \o << Question >>
                     \o JoinPairs(Pairs(fmtCall.queryPrm))

(***************************************************************************)
(* The memory pool.                                                        *)
(***************************************************************************)
Min2(a, b) == IF a < b THEN a ELSE b
Max2(a, b) == IF a > b THEN a ELSE b

\* the places an array is in: positions of the pool, requests that hold it,
\* positions of the lists being released
Places(id) ==
    { << "pool", 0, i >> : i \in { j \in DOMAIN mem.pool : mem.pool[j].id = id } }
    \cup { << "held", q, 0 >> :
             q \in { r \in Procs : \E pg \in mem.held[r] : pg.id = id } }
    \cup UNION { { << "relq", q, i >> :
                     i \in { j \in DOMAIN mem.relq[q] :
                                mem.relq[q][j].id = id } } : q \in Procs }

\* C17: the pool holds between 0 and poolSize pages; releasing k pages into a
\* pool of n pages and capacity c leaves min(n + k, c) pages (each page
\* offered adds one unless the pool is full), and Acquire leaves max(n - 1, 0).
C17_PoolBounded ==
    /\ [](/\ Len(mem.pool) \in 0..mem.poolSize
          /\ \A q \in Procs :
                Len(ReleasePages(mem.pool, mem.poolSize, mem.relq[q]))
                  = Min2(Len(mem.pool) + Len(mem.relq[q]), mem.poolSize))
    /\ [][\A q \in Procs :
            /\ Len(mem'.relq[q]) < Len(mem.relq[q])
               => Len(mem'.pool) = Min2(Len(mem.pool) + 1, mem.poolSize)
            /\ mem'.nextId > mem.nextId /\ mem'.made # mem.made
               => Len(mem'.pool) = 0 /\ Len(mem.pool) = 0
            /\ mem'.held[q] \ mem.held[q] # {}
               => Len(mem'.pool) = Max2(Len(mem.pool) - 1, 0)]_vars

C17_Witness ==
    /\ mem.poolSize = 1 /\ Len(mem.pool) = 1
    /\ \A q \in Procs : mem.relq[q] = << >> /\ mem.held[q] = {}
    /\ \E id \in mem.made : Places(id) = {}

\* C18: whatever pages are passed to Release, every page returned
\* by Acquire has length 0 and the capacity of the pool's page size.
C18_AcquiredPageShape ==
    \A q \in Procs : \A pg \in mem.held[q] :
        Len(pg.dat) = 0 /\ pg.cap = mem.pageSize

\* C19: under every interleaving of the Acquire and Release steps of several
\* requests, an array that is never passed twice to one Release is in one
\* place at most: the pool, one request's hands, or one release in progress.
\* No two requests hold it at the same time.
C19_OneOwner ==
    \A id \in 1..(mem.nextId - 1) :
        id \notin mem.twice => Cardinality(Places(id)) <= 1

C19_Witness ==
    /\ \E pg \in mem.held[2] : pg.id \in mem.reused \ mem.twice
    /\ mem.held[1] # {}
    /\ mem.relq[1] # << >>

(***************************************************************************)
(* Percent-decoding.                                                       *)
(***************************************************************************)
\* the value of a hexadecimal digit given as a byte
HexVal(d) == IF d >= 65 THEN d - 55 ELSE d - 48

RECURSIVE Unescape(_)
\* every %XX replaced by the byte of value XX, every other byte copied
Unescape(bytes) ==
    IF bytes = << >> THEN << >>
    ELSE IF Head(bytes) = 37 /\ Len(bytes) >= 3
    THEN << 16 * HexVal(bytes[2]) + HexVal(bytes[3]) >>
         \o Unescape(SubSeq(bytes, 4, Len(bytes)))
    ELSE << Head(bytes) >> \o Unescape(Tail(bytes))

\* C20: percent-decoding the bytes that writeEscaped(s) appends yields s, and
\* in those bytes every byte of s outside the unreserved set is % followed by
\* its two hexadecimal digits, every unreserved byte itself.
C20_EscapeRoundTrip ==
    escCall.called
    => /\ Unescape(escCall.out) = escCall.str
       /\ escCall.out = EscapeStr(escCall.str)

C20_Witness ==
    /\ escCall.called
    /\ escCall.pageSize = 2
    /\ escCall.str = << 97, 37, 255 >>
    /\ escCall.out = << 97, 37, 50, 53, 37, 70, 70 >>

(***************************************************************************)
(* prepare.                                                                *)
(***************************************************************************)
PreparePos == hlmiddlewares + 1
\* the stage at pos was run and has returned
Returned(pos) == Ran(pos) /\ \A k \in 1..Len(stack) : stack[k].pos # pos
\* the stage at pos recorded the error e
RecordedBy(pos, e) ==
    \E k \in 1..Len(errHist) : errHist[k].pos = pos /\ errHist[k].err = e
\* the endpoint of the call's inputs can be formatted
FormatSucceeds ==
    fmtEndpoint(<< >>, PipePageSize, PipePoolSize,
                in.format, in.queryPrm, in.pathPrm).err = NoErr

BodyEncoded ==
    /\ in.body # "nil" /\ in.marshaler # "nil"
    /\ Returned(PreparePos)
    /\ \A k \in 1..Len(errHist) : errHist[k].pos # PreparePos
\* the content-type header the caller supplied, in either letter case
CallerContentType ==
    IF in.headers.m["Content-Type"] # Absent THEN in.headers.m["Content-Type"]
    ELSE in.headers.m["content-type"]

\* C22: when the body was encoded, the request sent carries the one
\* content-type header the caller supplied, in whatever letter case, and the
\* marshaler's content type only when the caller supplied none.
C22_CallerContentTypeWins ==
    (BodyEncoded /\ called >= 1)
    => sent.header["Content-Type"] =
         << IF CallerContentType # Absent THEN CallerContentType
            ELSE Marshal(in.body).ctype >>

(***************************************************************************)
(* The attempts of the retrier.                                            *)
(***************************************************************************)
\* the values of a header as a bag
BagOf(sq) == [v \in { sq[i] : i \in DOMAIN sq } |->
                Cardinality({ i \in DOMAIN sq : sq[i] = v })]
\* the last attempt was not retry-eligible
LastNotEligible ==
    /\ called >= 1
    /\ \/ lastOut.err = NoErr /\ lastOut.res.status <= 299
       \/ /\ lastOut.err = NoErr /\ lastOut.res.status > 299
          /\ lastOut.res.status \notin retr.retryCodes

\* C25: every attempt under the retrier sends a request constructed for it,
\* with the call's method, the endpoint prepare built, every entry of the
\* headers map under its canonical name, and the whole encoded body; none of
\* these changes between the attempts.
C25_AttemptsRebuildRequest ==
    /\ [][InRun /\ InRun'
            => UNCHANGED << in, endpoint, data, headers >>]_vars
    /\ []((retr.present /\ called >= 1)
            => /\ sent.method = in.method
               /\ sent.url = endpoint
               /\ sent.body = data
               /\ \A c \in CanonNames :
                     \E ord \in Orders(PresentKeys(headers)) :
                        BagOf(sent.header[c]) = BagOf(ValuesOf(headers, ord, c)))

C25_Witness ==
    /\ Done /\ retr.present /\ retr.max = 1
    /\ called = 2
    /\ in.body = "ok"
    /\ sent.body = << 97 >> /\ sent.body = data
    /\ sent.header["Content-Type"] = << "application/json" >>
    /\ sent.header["Authorization"] = << "x.y.z" >>

\* C26: Do never modifies the headers map the caller supplied (no middleware
\* of the model edits it): after the call the map holds the entries it held
\* before.
C26_InputsUntouched == Done => headers = in.headers

\* C27: the run stops at the first attempt that is not retry-eligible: no
\* further invocation follows it, and the run returns that attempt's error
\* unwrapped, nil on success; when the request cannot be constructed the run
\* ends with the construction error after no invocation.
C27_StopsAtFirstIneligible ==
    /\ [][(retr.present /\ ~allRetry) => called' = called]_vars
    /\ []((retr.present /\ Returned(Last) /\ ~allRetry)
            => /\ BadMethod(in.method)
                  => called = 0 /\ RecordedBy(Last, ErrNewRequest)
               /\ ~BadMethod(in.method)
                  => /\ LastNotEligible
                     /\ IF lastOut.res.status > 299
                        THEN RecordedBy(Last, ErrStatus(lastOut.res.status))
                        ELSE \A k \in 1..Len(errHist) : errHist[k].pos # Last
               /\ \A k \in 1..Len(errHist) :
                     errHist[k].pos = Last => ~errHist[k].err.wrapped)

C27_Witness ==
    /\ Done /\ retr = NewStatusCodeRetrier(1, RetryCodes)
    /\ ~allRetry /\ called = 2
    /\ lastOut = [res |-> Resp(404, 2), err |-> NoErr]
    /\ result = [res |-> Resp(404, 2), err |-> ErrStatus(404)]

\* C28: with a retrier, a response that comes with a nil error and a status
\* above 299 that is not retry-eligible ends the run: no invocation follows
\* (one invocation when it answers the first), and Do returns "request failed
\* with status code N"; without a retrier the same response is a success.
C28_StatusErrorOnlyWithRetrier ==
    /\ [][(retr.present /\ LastNotEligible) => called' = called]_vars
    /\ []((Done /\ NoEarlierError /\ called >= 1
                /\ lastOut.err = NoErr /\ lastOut.res.status > 299
                /\ lastOut.res.status \notin retr.retryCodes)
            => IF retr.present
               THEN result = [res |-> lastOut.res,
                              err |-> ErrStatus(lastOut.res.status)]
               ELSE result = [res |-> lastOut.res, err |-> NoErr])

C28_Witness ==
    /\ Done /\ retr = NewBasicRetrier(1)
    /\ called = 1
    /\ lastOut = [res |-> Resp(500, 1), err |-> NoErr]
    /\ result = [res |-> Resp(500, 1), err |-> ErrStatus(500)]

\* C29: within one call the cursor starts at 0, only increases, never exceeds
\* the length of the chain; a Next at the end of the chain does nothing; and
\* no stage is run more than once, however many times the middlewares call
\* Next.
C29_LinearPipeline ==
    /\ (pc = "idle" => fni = 0)
    /\ [][/\ fni' >= fni
          /\ fni = Len(functions) => fni' = fni /\ ran' = ran]_vars
    /\ [](/\ fni \in 0..Len(functions)
          /\ \A j, k \in 1..Len(ran) : j # k => ran[j] # ran[k]
          /\ \A k \in 1..Len(ran) : ran[k] \in 1..Len(functions))

C29_Witness ==
    /\ Done
    /\ hlmiddlewares = 1 /\ llmiddlewares = 1
    /\ twiceNext = {1, 3}
    /\ fni = Len(functions)
    /\ ran = << 1, 2, 3, 4 >>

(***************************************************************************)
(* The pages of one fmtEndpoint call.                                      *)
(***************************************************************************)
\* the pages a writer has acquired when it holds n bytes: the first page and
\* one more each time a byte finds the current page full
PagesFor(n, pageSize) ==
    IF n = 0 THEN 1 ELSE (n + pageSize - 1) \div pageSize

\* C30: on every exit path (success and each error return) the call releases
\* its writer once: every page it acquired, the current one and the retired
\* ones, is offered to the pool once, so that the pool then holds the pages
\* the call did not take plus the pages it acquired, up to the pool's size,
\* each reset to length 0.
C30_WriterReleasedOnce ==
    fmtCall.called
    => LET n     == PagesFor(fmtCall.written, fmtCall.pageSize)
           taken == Min2(Len(fmtCall.pool), n)
       IN  /\ Len(fmtCall.poolAfter)
                = Min2(PipePoolSize, Len(fmtCall.pool) - taken + n)
           /\ \A i \in DOMAIN fmtCall.poolAfter :
                 fmtCall.poolAfter[i] = NewPage(fmtCall.pageSize)

C30_Witness ==
    /\ fmtCall.called
    /\ fmtCall.pageSize = 1 /\ fmtCall.pool = << NewPage(1) >>
    /\ fmtCall.format = << LBrace, RBrace, LBrace >>
    /\ fmtCall.pathPrm = << << 98, 32 >> >>
    /\ fmtCall.err = ErrIllegal
    /\ fmtCall.written = 4
    /\ Len(fmtCall.poolAfter) = 2

(***************************************************************************)
(* Use and Do.                                                             *)
(***************************************************************************)
\* the middlewares of the batch-th Use call in a chain
OfBatch(fns, batch) == { i \in DOMAIN fns : fns[i].batch = batch }

\* C24: registration is guarded: no Do call reads a middleware list while Use
\* is modifying it, and the chain of a Do call has all or none of the
\* middlewares one Use call added (and nothing else but prepare and execute).
C24_UseGuarded ==
    /\ ~use.racy
    /\ use.dpc = "done"
       => /\ \A b \in 1..MaxUse :
                Cardinality(OfBatch(use.fns, b)) \in {0, use.sizes[b]}
          /\ \A i \in DOMAIN use.fns : use.fns[i] # NilMw

(***************************************************************************)
(* Concurrent calls.                                                       *)
(***************************************************************************)
\* what a call shows of its Request: where it is, the cursor, the stages run,
\* the errors recorded, the output slots and the result
Shown(r) ==
    << r.pc, r.fni, r.ran, r.errors, r.endpoint, r.data, r.headers,
       r.response, r.result >>

Malformed(format) ==
    { i \in 1..Len(format) :
        format[i] = LBrace /\ ~(i < Len(format) /\ format[i + 1] = RBrace) }

\* the positions of the placeholders for which no parameter is left
Starved(format, pathPrm) ==
    { i \in PlaceholderAt(format) :
        Cardinality({ j \in PlaceholderAt(format) : j < i }) >= Len(pathPrm) }

\* the error of the defect met first from the left; "too many parameters"
\* when there is no such defect and parameters are left over
FirstDefect(format, pathPrm) ==
    LET D == Malformed(format) \cup Starved(format, pathPrm)
    IN  IF D # {}
        THEN IF (CHOOSE i \in D : \A j \in D : i <= j) \in Malformed(format)
             THEN ErrIllegal ELSE ErrNotEnough
        ELSE IF Placeholders(format) < Len(pathPrm) THEN ErrTooMany
        ELSE NoErr

\* C34: fmtEndpoint reports the defect met first in a left-to-right scan of
\* the template (a malformed {, or a placeholder with no parameter left);
\* "too many parameters" only when the scan reached the end without another
\* error; after any error nothing is returned and the writer holds no byte of
\* the query (no more bytes than the path stands for).
C34_FirstDefectReported ==
    fmtCall.called
    => /\ fmtCall.err = FirstDefect(fmtCall.format, fmtCall.pathPrm)
       /\ fmtCall.err # NoErr
          => /\ fmtCall.out = << >>
             /\ fmtCall.written
                  <= Len(Substitute(fmtCall.format, fmtCall.pathPrm))

C34_Witness ==
    /\ fmtCall.called
    /\ fmtCall.format = << LBrace, RBrace, LBrace >>
    /\ fmtCall.pathPrm = << >>
    /\ fmtCall.queryPrm # << >> /\ Pairs(fmtCall.queryPrm) # << >>
    /\ fmtCall.err = ErrNotEnough
    /\ fmtCall.written = 0

(***************************************************************************)
(* The Next that restores the cursor.                                      *)
(***************************************************************************)
\* the number of times the stage at position q was run
TimesRan(q) == Cardinality({ k \in 1..Len(ran) : ran[k] = q })

\* every stage before the last other than the one at p called Next exactly
\* once in each of its runs
OthersNextOnce(p) ==
    /\ twiceNext \subseteq {p}
    /\ noNext \subseteq {p, Last}

\* the number of calls of Next made by the stage at p in its one run
NextCalls(p) == IF p \in twiceNext THEN 2 ELSE IF p \in noNext THEN 0 ELSE 1

\* the cursor is the position of the stage that has control, and 0 when Do
\* has control: its value when Next returns is its value when Next was called
CursorRestored ==
    /\ (pc \in {"running", "panic"} /\ stack # << >>) => fni = Top.pos
    /\ (pc \in {"running", "done"} /\ stack = << >>) => fni = 0

RetrierFinished == retr.present /\ called >= 1 /\ run.pc = "idle"

\* Do returned an error that is, or wraps, an error of the transport
EndsWithTransportError == Done /\ result.err.kind = ErrTransport.kind

\* C37 as stated: when executeWithRetrier finishes, the response slot holds
\* the result of the final attempt only, nil if that attempt returned a
\* transport error; whenever the call ends with an error caused by a transport
\* error, the response returned by Do is nil.
C37_TransportErrorNilResponse ==
    /\ RetrierFinished
       => /\ response = lastOut.res
          /\ lastOut.err # NoErr => response = NilResp
    /\ (EndsWithTransportError /\ retr.present) => result.res = NilResp

\* C37 amended: when executeWithRetrier finishes, the response slot holds what
\* the transport returned in the final attempt, never the response of an
\* earlier attempt: nil when the transport returned no response with its
\* error, the response it returned otherwise; whenever the call ends with an
\* error caused by a transport error, Do returns the response slot as the
\* final attempt left it.
C37_FinalAttemptResponse ==
    /\ RetrierFinished
       => /\ response = lastOut.res
          /\ response # NilResp => response.call = called
          /\ lastOut.res = NilResp => response = NilResp
    /\ (EndsWithTransportError /\ retr.present) => result.res = lastOut.res

C37_Witness ==
    /\ EndsWithTransportError /\ RetrierFinished
    /\ retr = NewStatusCodeRetrier(1, RetryCodes)
    /\ called = 2
    /\ lastOut = [res |-> NilResp, err |-> ErrTransport]
    /\ result = [res |-> NilResp, err |-> ErrMaxRetries(ErrTransport)]

(***************************************************************************)
(* prepare on absent inputs.                                               *)
(***************************************************************************)
\* C38 as stated: prepare completes without a runtime fault for every
\* combination of present or absent body, marshaler, headers map, query map
\* and path parameters; with a body and a marshaler present and no headers map
\* supplied, it records the marshaler's content type and calls Next.
C38_PrepareNeverFaults ==
    /\ pc # "panic"
    /\ (BodyEncoded /\ in.headers.isNil)
       => /\ headers.m["Content-Type"] = Marshal(in.body).ctype
          /\ PreparePos \notin noNext

(***************************************************************************)
(* The pool never blocks its callers.                                      *)
(***************************************************************************)
\* request p may call Acquire: it is not inside Release, and the call stays
\* within the pages one request holds and the arrays the pool allocates
MayAcquire(p) ==
    /\ mem.relq[p] = << >>
    /\ Cardinality(mem.held[p]) < MaxHeld
    /\ Len(mem.pool) = 0 => mem.nextId <= MaxPages

\* C35: Acquire and Release never block: in every state reached by any
\* interleaving of the callers, with the pool empty or full, a caller's
\* Acquire can return a page at once and the next iteration of every Release
\* in progress can be taken at once; each iteration leaves one page fewer to
\* offer, so every Release returns.
C35_NeverBlocks ==
    /\ [](\A p \in Procs :
            /\ MayAcquire(p) => ENABLED AcquireCall(p)
            /\ mem.relq[p] # << >> => ENABLED ReleaseStep(p))
    /\ [][\A p \in Procs :
            (mem.relq[p] # << >> /\ mem'.relq[p] # mem.relq[p])
            => mem'.relq[p] = Tail(mem.relq[p])]_vars

C35_Witness ==
    /\ mem.poolSize = 1 /\ Len(mem.pool) = mem.poolSize
    /\ mem.relq[1] # << >> /\ mem.relq[2] # << >>
    /\ ENABLED ReleaseStep(1) /\ ENABLED ReleaseStep(2)

(***************************************************************************)
(* A writer used directly: any sequence of add, writeByte, writeString,   *)
(* writeEscaped and build on one writer, over a pool of any page size,     *)
(* zero included, that may hold pages released earlier.  writeString is    *)
(* taken one loop iteration at a time.  writeEscaped is a sequence of      *)
(* calls of writeString; it is taken in one step, on the pools over which  *)
(* the loop of writeString ends (every page has room for a byte).          *)
(***************************************************************************)
InitWr ==
    /\ decNext = FALSE
    /\ hlmiddlewares = 0
    /\ llmiddlewares = 0
    /\ retr = NoRetrier
    /\ functions = NewClient(hlmiddlewares, llmiddlewares, retr)
    /\ srCall = NoSrCall
    /\ fmtCall = NoFmtCall
    /\ mem = NewMemPool(PipePageSize, PipePoolSize)
    /\ escCall = NoEscCall
    /\ use = UseClient
    /\ conc = NoConc
    /\ \E ps \in 0..MaxWrPage :
         \E pl \in { << >>, << NewPage(ps) >>, << NewPage(0) >>,
                     << NewPage(0), NewPage(ps) >> } :
           wcall = [w |-> newWrirter(pl, ps, PipePoolSize),
                    asked |-> << >>, ops |-> 0,
                    loop |-> [on |-> FALSE, str |-> << >>, beg |-> 0,
                              end |-> 0],
                    built |-> FALSE, dst |-> NewPage(0), out |-> << >>]
    /\ InitRequest

\* buf.add(page) with a page that is empty, holds bytes, or has no capacity
addCall ==
    /\ ~wcall.loop.on /\ ~wcall.built
    /\ wcall.ops < MaxWrOps /\ Len(wcall.w.store) < MaxWrStore
    /\ \E pg \in { NewPage(1), [dat |-> << 98 >>, cap |-> 2], NewPage(0) } :
         wcall' = [wcall EXCEPT !.w = bufAdd(@, pg),
                                !.asked = @ \o pg.dat,
                                !.ops = @ + 1]

\* w.writeByte(byt)
writeByteCall ==
    /\ ~wcall.loop.on /\ ~wcall.built
    /\ wcall.ops < MaxWrOps /\ Len(wcall.w.store) < MaxWrStore
    /\ wcall' = [wcall EXCEPT !.w = writeByte(@, 97),
                              !.asked = Append(@, 97),
                              !.ops = @ + 1]

\* w.writeString(str): the call up to its loop, and one iteration of the loop
writeStringStep ==
    \/ /\ ~wcall.loop.on /\ ~wcall.built
       /\ wcall.ops < MaxWrOps
       /\ \E str \in Strings({97, 32}, MaxWrStr) :
            LET space == wcall.w.page.cap - Len(wcall.w.page.dat)
            IN  IF space >= Len(str)
                THEN wcall' = [wcall EXCEPT
                                 !.w.page = appendBytes(@, str),
                                 !.asked = @ \o str,
                                 !.ops = @ + 1]
                ELSE wcall' = [wcall EXCEPT
                                 !.w.page = appendBytes(@, SubStr(str, 0, space)),
                                 !.asked = @ \o str,
                                 !.ops = @ + 1,
                                 !.loop = [on |-> TRUE, str |-> str,
                                           beg |-> space, end |-> space]]
    \/ /\ wcall.loop.on
       /\ Len(wcall.w.store) < MaxWrStore
       /\ LET a    == Acquire(wcall.w)
              end1 == wcall.loop.end + a.page.cap
              end2 == IF end1 > Len(wcall.loop.str)
                      THEN Len(wcall.loop.str) ELSE end1
          IN  wcall' = [wcall EXCEPT
                          !.w = bufAdd(a.w, appendBytes(a.page,
                                   SubStr(wcall.loop.str, wcall.loop.beg, end2))),
                          !.loop.beg = end2,
                          !.loop.end = end2,
                          !.loop.on = end2 < Len(wcall.loop.str)]

\* w.writeEscaped(str)
writeEscapedOnWriter ==
    /\ ~wcall.loop.on /\ ~wcall.built
    /\ wcall.ops < MaxWrOps
    /\ wcall.w.pageSize >= 1
    /\ \A i \in 1..Len(wcall.w.pool) : wcall.w.pool[i].cap >= 1
    /\ \E str \in Strings({97, 32}, MaxWrStr) :
         wcall' = [wcall EXCEPT !.w = writeEscaped(@, str),
                                !.asked = @ \o EscapeStr(str),
                                !.ops = @ + 1]

\* buf.build(dst) with dst nil, empty with room, holding a byte without room
\* and holding a byte with room
buildCall ==
    /\ ~wcall.loop.on /\ ~wcall.built
    /\ \E dst \in { NewPage(0), NewPage(16), [dat |-> << 99 >>, cap |-> 1],
                     [dat |-> << 99 >>, cap |-> 16] } :
         wcall' = [wcall EXCEPT !.built = TRUE, !.dst = dst,
                                !.out = bufBuildInto(wcall.w, dst)]

NextWr ==
    /\ \/ addCall
       \/ writeByteCall
       \/ writeStringStep
       \/ writeEscapedOnWriter
       \/ buildCall
    /\ UNCHANGED << decNext, hlmiddlewares, llmiddlewares, retr, functions,
                    srCall, fmtCall, mem, escCall, use, conc, sent, pool, pc,
                    in, fni, errors, response, endpoint, data, headers, stack,
                    run, cancelled, result, histVars >>

SpecWr == InitWr /\ [][NextWr]_vars

(***************************************************************************)
(* C31: after any sequence of add calls and of writes to the current page, *)
(* len() of the buffer is the sum of the lengths of the retired pages plus *)
(* the length of the current page, and the retired pages stay in the order *)
(* in which they were retired: a step only appends to the store, and the   *)
(* first page it appends is the page that was current.                     *)
(***************************************************************************)
RetiredInOrder ==
    /\ IsPrefix(wcall.w.store, wcall'.w.store)
    /\ Len(wcall'.w.store) > Len(wcall.w.store)
         => IsPrefix(wcall.w.page.dat,
                     wcall'.w.store[Len(wcall.w.store) + 1].dat)

C31_BufferLen ==
    /\ [](bufLen(wcall.w)
            = Len(Concat(wcall.w.store)) + Len(wcall.w.page.dat))
    /\ [][RetiredInOrder]_vars

C31_Witness ==
    /\ Len(wcall.w.store) >= 2
    /\ \A i \in 1..Len(wcall.w.store) : wcall.w.store[i].dat # << >>
    /\ wcall.w.page.dat # << >>
    /\ bufLen(wcall.w) >= 3

(***************************************************************************)
(* C32: whatever the buffer holds and whatever destination slice is passed *)
(* to build (nil, empty, holding bytes, with or without room), the bytes   *)
(* returned are the retired pages in order followed by the current page.   *)
(* No call is made on the writer after build, so the pages compared are    *)
(* the pages build was called on.                                          *)
(***************************************************************************)
C32_BuildReturnsPages ==
    wcall.built
        => wcall.out = Concat(wcall.w.store) \o wcall.w.page.dat

(***************************************************************************)
(* C33: over a pool of page size at least 1, after any sequence of         *)
(* writeByte, writeString and writeEscaped calls on one writer, build(nil) *)
(* returns the bytes the calls were asked to write, in call order, the     *)
(* escaped form for writeEscaped: nothing is lost, duplicated or reordered *)
(* where a string crosses a page boundary.                                 *)
(***************************************************************************)
C33_BuildIsWhatWasWritten ==
    (wcall.w.pageSize >= 1 /\ ~wcall.loop.on)
        => /\ bufBuildInto(wcall.w, NewPage(0)) = wcall.asked
           /\ (wcall.built /\ wcall.dst = NewPage(0))
                => wcall.out = wcall.asked

\* a string was split over pages by the loop of writeString, an escaped byte
\* was written afterwards, and the result was built into a nil slice
C33_Witness ==
    /\ wcall.w.pageSize >= 1
    /\ ~wcall.loop.on
    /\ wcall.loop.str # << >>
    /\ \E i \in 1..(Len(wcall.asked) - 2) :
         SubSeq(wcall.asked, i, i + 2) = escape(32)
    /\ Len(wcall.w.store) >= 3
    /\ wcall.built /\ wcall.dst = NewPage(0)
    /\ wcall.out = wcall.asked

(***************************************************************************)
(* C39: writeString terminates for every string and every pool, a pool of *)
(* page size 0 and a pool holding zero-capacity pages included: every      *)
(* iteration of its loop (the step that adds a page while the call is in   *)
(* progress) strictly reduces the number of bytes still to be written.     *)
(***************************************************************************)
BytesLeft(l) == Len(l.str) - l.beg

C39_LoopProgress ==
    [][(wcall.loop.on /\ wcall'.w.store # wcall.w.store)
         => BytesLeft(wcall'.loop) < BytesLeft(wcall.loop)]_vars

====
